---------------------------- MODULE Spec2Model ----------------------------
(***************************************************************************)
(* A model of independent fragments of the repository:                     *)
(*   - folly::Range              (third-party/folly/src/folly/Range.h)     *)
(*   - HPHP::jit::ProfData       (hphp/runtime/vm/jit/prof-data.cpp)       *)
(*   - fizz::ech                 (third-party/fizz/.../ech/Encryption.cpp) *)
(*       config negotiation, padding, acceptance confirmation, and the    *)
(*       encryption and decryption of the inner ClientHello                *)
(* Each fragment has its own variables and its own specification; a        *)
(* specification pins the variables of the other fragments.                *)
(***************************************************************************)
EXTENDS Integers, Sequences, FiniteSets, TLC

VARIABLES
  \* folly::Range: a writable view and the last operation applied to it
  r,            \* the elements the view [b_, e_) ranges over
  last,         \* the last call on r: its arguments, the view before, the result
  \* HPHP::jit::ProfData: one ProfData object used by concurrent threads
  m_transRecs,      \* std::vector<std::unique_ptr<ProfTransRec>>
  m_transLock,      \* owner of the exclusive lock, or NoThread
  m_countersReset,  \* std::atomic<bool>
  requestCount,     \* the process-wide request counter read by requestCount()
  tpc,              \* per thread: position inside the call it executes
  tlocal,           \* per thread: locals of the call (observed values)
  allocLog,         \* ids returned by allocTransID, in lock-acquisition order
  resetLog,         \* one entry per resetAllCounters call: what the caller observed
  \* the process-wide ProfData singleton and its teardown
  pstate,            \* "pre" (before processInitProfData), "running", "exited"
  cfgPGO,            \* Cfg::Jit::PGO
  cfgKeepProfData,   \* Cfg::Eval::KeepProfData
  s_profData,        \* std::atomic<ProfData*>
  s_profDataHolder,  \* std::unique_ptr<ProfData>
  rl_profData,       \* per request thread: the request-local ProfData*
  deleted,           \* how many times the ProfData object has been destroyed
  treadmill,         \* jobs enqueued on the Treadmill, not yet run
  reqpc,             \* per request thread: where it is in its request
  sawCleared,        \* per request thread: requestInitProfData ran after the
                     \* global pointer had been cleared by discardProfData
  cleared,           \* discardProfData has exchanged the global pointer away
  dpc,               \* per discarding thread: position in discardProfData
  ddata,             \* per discarding thread: its local `data`
  discardCalls,      \* discardProfData calls started so far
  \* fizz::ech::negotiateECHConfig
  configs,           \* std::vector<ParsedECHConfig>
  supportedKEMs,     \* std::vector<hpke::KEMId>
  supportedAeads,    \* std::vector<hpke::AeadId>
  negotiated,        \* folly::Optional<NegotiatedECHConfig>, once computed
  \* fizz::ech::calculateECHPadding
  padChlo,           \* the inner ClientHello (its extensions)
  padEncodedSize,    \* size_t encodedSize
  padMaxLen,         \* size_t maxLen
  padResult,         \* the outcome of the call, once made
  \* fizz::ech: setAcceptConfirmation and checkECHAccepted
  accMsg,            \* the ServerHello or HelloRetryRequest
  accOracle,         \* what the key scheduler has answered, per transcript
  accPc,             \* "start", "set", "threw", "checked", "tampered"
  accWasSet,         \* setAcceptConfirmation has returned on accMsg
  accTampered,       \* one confirmation byte was changed after acceptance
  accResult,         \* outcome of the last checkECHAccepted
  \* fizz::ech: encryptClientHello and decryptECHWithContext
  echInner,          \* clientHelloInner
  echOuter,          \* clientHelloOuter, before the ECH extension is added
  echOuterTypes,     \* outerExtensionTypes
  echGreasePsk,      \* folly::Optional<ClientPresharedKey>: passed or not
  echPc,             \* "start", "encrypted", "encryptThrew", "decrypted"
  echExtension,      \* the OuterECHClientHello encryptClientHello returned
  hpkeSealed,        \* what the HPKE context has sealed: aad, plaintext, ciphertext
  echDecrypted,      \* outcome of decryptECHWithContext
  \* fizz::ech::substituteOuterExtensions
  subInner,          \* chloInnerExt: the decoded inner hello's extensions
  subOuter,          \* chloOuterExt: the outer hello's extensions
  subResult,         \* the outcome of the call, once made
  genArgs,           \* the command line of gen-member-reflection
  genEnv,            \* the build flag, the output path and the debug info
  genPc,             \* "start" before main runs, "done" after it returned
  genExit,           \* main's return value, -1 before it returned
  genOutput,         \* what main left in the output file
  genNumThreads,     \* the global NumThreads
  cmpKind,           \* the element type of the two ranges compared
  cmpA,              \* the range a
  cmpB,              \* the range b
  cmpResult,         \* a.compare(b), b.compare(a) and a == b once computed
  m_proflogueDB,     \* the prologue map, as its set of (key, value) entries
  proTransRecs,      \* m_transRecs as far as prologue records go
  proCalls,          \* registrations made so far
  proAborted,        \* an always_assert ended the process
  proLast,           \* the last call on the prologue map and its outcome
  grSource,          \* the pre_shared_key extension of the inner hello, or the previous PSK
  grPc,              \* "start", then "grease" or "hrr" by the function called
  grResult,          \* what the function returned
  pubTransRecs,      \* m_transRecs
  pubTransLock,      \* the thread holding m_transLock, or NoThread
  pubFuncProfTrans,  \* m_funcProfTrans[funcId] for the one function
  pubDvFuncletDB,    \* m_dvFuncletDB, as its set of entries
  pubProflogueDB,    \* m_proflogueDB, as its set of entries
  pubPc,             \* each translating thread's position
  pubLocal,          \* each translating thread's transID and kind of translation
  pubAborted,        \* an always_assert ended the process
  pubObs,            \* what the reading thread last obtained, and how
  rtInner,           \* chloInnerExt, the inner hello's extensions
  rtTypes,           \* outerExtensionTypes
  rtOuter,           \* the outer hello's extensions
  rtResult,          \* what substituteOuterExtensions made of the compressed list
  sniMaxLen,         \* the config's maximum_name_length
  sniTypes,          \* outerExtensionTypes
  sniFiller,         \* the length of the other inner extension's data
  sniNames,          \* the two inner hellos' host name lengths, or NoName
  sniResult          \* the two padded encoded inner hellos' lengths

rangeVars == <<r, last>>
profVars  == <<m_transRecs, m_transLock, m_countersReset, requestCount,
               tpc, tlocal, allocLog, resetLog>>
lifeVars  == <<pstate, cfgPGO, cfgKeepProfData, s_profData, s_profDataHolder,
               rl_profData, deleted, treadmill, reqpc, sawCleared, cleared,
               dpc, ddata, discardCalls>>
negVars   == <<configs, supportedKEMs, supportedAeads, negotiated>>
padVars   == <<padChlo, padEncodedSize, padMaxLen, padResult>>
accVars   == <<accMsg, accOracle, accPc, accWasSet, accTampered, accResult>>
echVars   == <<echInner, echOuter, echOuterTypes, echGreasePsk, echPc,
               echExtension, hpkeSealed, echDecrypted>>
subVars == <<subInner, subOuter, subResult>>
genVars == <<genArgs, genEnv, genPc, genExit, genOutput, genNumThreads>>
cmpVars == <<cmpKind, cmpA, cmpB, cmpResult>>
proVars == <<m_proflogueDB, proTransRecs, proCalls, proAborted, proLast>>
greaseVars == <<grSource, grPc, grResult>>
pubVars == <<pubTransRecs, pubTransLock, pubFuncProfTrans, pubDvFuncletDB, pubProflogueDB,
             pubPc, pubLocal, pubAborted, pubObs>>
rtVars == <<rtInner, rtTypes, rtOuter, rtResult>>
sniVars == <<sniMaxLen, sniTypes, sniFiller, sniNames, sniResult>>
vars == <<rangeVars, profVars, lifeVars, negVars, padVars, accVars,
         echVars, subVars, genVars, cmpVars, proVars, greaseVars,
         pubVars, rtVars, sniVars>>
\* what an action of one fragment leaves alone: the other fragments
outsideRange == <<profVars, lifeVars, negVars, padVars, accVars, echVars,
                  subVars, genVars, cmpVars, proVars, greaseVars, pubVars,
                  rtVars, sniVars>>
outsideProf == <<rangeVars, lifeVars, negVars, padVars, accVars, echVars,
                 subVars, genVars, cmpVars, proVars, greaseVars, pubVars,
                 rtVars, sniVars>>
outsideLife == <<rangeVars, profVars, negVars, padVars, accVars, echVars,
                 subVars, genVars, cmpVars, proVars, greaseVars, pubVars,
                 rtVars, sniVars>>
outsideNeg == <<rangeVars, profVars, lifeVars, padVars, accVars, echVars,
                subVars, genVars, cmpVars, proVars, greaseVars, pubVars,
                rtVars, sniVars>>
outsidePad == <<rangeVars, profVars, lifeVars, negVars, accVars, echVars,
                subVars, genVars, cmpVars, proVars, greaseVars, pubVars,
                rtVars, sniVars>>
outsideAcc == <<rangeVars, profVars, lifeVars, negVars, padVars, echVars,
                subVars, genVars, cmpVars, proVars, greaseVars, pubVars,
                rtVars, sniVars>>
outsideEch == <<rangeVars, profVars, lifeVars, negVars, padVars, accVars,
                subVars, genVars, cmpVars, proVars, greaseVars, pubVars,
                rtVars, sniVars>>
outsideSub == <<rangeVars, profVars, lifeVars, negVars, padVars, accVars,
                echVars, genVars, cmpVars, proVars, greaseVars, pubVars,
                rtVars, sniVars>>
outsideGen == <<rangeVars, profVars, lifeVars, negVars, padVars, accVars,
                echVars, subVars, cmpVars, proVars, greaseVars, pubVars,
                rtVars, sniVars>>
outsideCmp == <<rangeVars, profVars, lifeVars, negVars, padVars, accVars,
                echVars, subVars, genVars, proVars, greaseVars, pubVars,
                rtVars, sniVars>>
outsidePro == <<rangeVars, profVars, lifeVars, negVars, padVars, accVars,
                echVars, subVars, genVars, cmpVars, greaseVars, pubVars,
                rtVars, sniVars>>
outsideGrease == <<rangeVars, profVars, lifeVars, negVars, padVars, accVars,
                   echVars, subVars, genVars, cmpVars, proVars, pubVars,
                   rtVars, sniVars>>
outsidePub == <<rangeVars, profVars, lifeVars, negVars, padVars, accVars,
                echVars, subVars, genVars, cmpVars, proVars, greaseVars,
                rtVars, sniVars>>
outsideRt == <<rangeVars, profVars, lifeVars, negVars, padVars, accVars,
               echVars, subVars, genVars, cmpVars, proVars, greaseVars,
               pubVars, sniVars>>
outsideSni == <<rangeVars, profVars, lifeVars, negVars, padVars, accVars,
                echVars, subVars, genVars, cmpVars, proVars, greaseVars,
                pubVars, rtVars>>

(***************************************************************************)
(* Shared helpers                                                          *)
(***************************************************************************)
\* 0-based element access, as operator[] of the source
At(s, i) == s[i + 1]

\* width of size_t in the model, and size_t addition and subtraction
SizeBits == 8
SizeMod == 2 ^ SizeBits
sizeAdd(a, b) == (a + b) % SizeMod
sizeSub(a, b) == (a - b + SizeMod) % SizeMod

RECURSIVE SeqsUpTo(_, _)
\* all sequences over S of length at most n
SeqsUpTo(S, n) ==
  IF n = 0 THEN {<<>>}
  ELSE LET shorter == SeqsUpTo(S, n - 1)
       IN shorter \cup {Append(s, x) : s \in {t \in shorter : Len(t) = n - 1}, x \in S}

Least(S) == CHOOSE x \in S : \A y \in S : x <= y

(***************************************************************************)
(* folly::Range                                                            *)
(***************************************************************************)
\* std::string::npos, the "not found" result
Npos == -1

\* longest view and longest pattern explored
MaxLen == 5
MaxPat == 2
Chars == {"a", "b"}
Views == SeqsUpTo(Chars, MaxLen)
Patterns == SeqsUpTo(Chars, MaxPat)
MaxNeedle == 3
Needles == SeqsUpTo(Chars, MaxNeedle)

\* Range::subpiece(first) for first <= size()
subpiece(s, first) == SubSeq(s, first + 1, Len(s))

RECURSIVE qfindMatchLast(_, _, _)
\* qfind, the scan for the needle's last element: the i it stops at, or Npos
qfindMatchLast(h, n, i) ==
  LET nsize_1 == Len(n) - 1
      iEnd == Len(h) - nsize_1
  IN IF At(h, i + nsize_1) = At(n, nsize_1) THEN i
     ELSE IF i + 1 = iEnd THEN Npos
     ELSE qfindMatchLast(h, n, i + 1)

RECURSIVE qfindMismatch(_, _, _, _)
\* qfind, "pedestrian mode": the first j with i[j] != needle[j], or nsize
qfindMismatch(h, n, i, j) ==
  IF At(h, i + j) # At(n, j) THEN j
  ELSE IF j + 1 = Len(n) THEN Len(n)
  ELSE qfindMismatch(h, n, i, j + 1)

\* qfind with a skip of the whole needle, for comparison
qfindSkipWholeNeedle(n, skip) == Len(n)

RECURSIVE qfindSkip(_, _)
\* qfind, the lazily computed skip value for the needle's last element
qfindSkip(n, skip) ==
  LET nsize_1 == Len(n) - 1
  IN IF skip <= nsize_1 /\ At(n, nsize_1 - skip) # At(n, nsize_1)
     THEN qfindSkip(n, skip + 1)
     ELSE skip

RECURSIVE qfindLoop(_, _, _, _)
\* qfind, the outer loop while (i < iEnd)
qfindLoop(h, n, i, skip) ==
  LET iEnd == Len(h) - (Len(n) - 1)
  IN IF ~(i < iEnd) THEN Npos
     ELSE LET i2 == qfindMatchLast(h, n, i)
          IN IF i2 = Npos THEN Npos
             ELSE IF qfindMismatch(h, n, i2, 0) = Len(n) THEN i2
             ELSE LET sk == IF skip = 0 THEN qfindSkip(n, 1) ELSE skip
                  IN qfindLoop(h, n, i2 + sk, sk)

\* qfind(haystack, needle)
qfind(h, n) ==
  IF Len(h) < Len(n) THEN Npos
  ELSE IF Len(n) = 0 THEN 0
  ELSE qfindLoop(h, n, 0, 0)

\* Range::find(str, pos)
find(s, str, pos) ==
  IF pos > Len(s) THEN Npos
  ELSE LET ret == qfind(subpiece(s, pos), str)
       IN IF ret = Npos THEN ret ELSE ret + pos

RECURSIVE stdCopy(_, _, _, _)
\* std::copy(replacement.begin(), replacement.end(), begin() + pos), as far
\* as it lands in the view; begin() + pos wraps as pos does
stdCopy(s, replacement, pos, k) ==
  IF k = Len(replacement) THEN s
  ELSE LET dest == sizeAdd(pos, k)
       IN stdCopy(IF dest < Len(s) THEN [s EXCEPT ![dest + 1] = At(replacement, k)] ELSE s, replacement, pos, k + 1)

\* whether that copy writes an element outside the view
copyLeavesView(s, replacement, pos) ==
  \E k \in 0..(Len(replacement) - 1) : sizeAdd(pos, k) >= Len(s)

\* Range::replaceAt(pos, replacement): the return value and the view afterwards
replaceAt(s, pos, replacement) ==
  IF Len(s) < sizeAdd(pos, Len(replacement))
  THEN [ok |-> FALSE, r |-> s]
  ELSE [ok |-> TRUE, r |-> stdCopy(s, replacement, pos, 0)]

RECURSIVE replaceAllLoop(_, _, _, _, _)
\* Range::replaceAll, the loop while ((found = find(source, pos)) != npos)
replaceAllLoop(s, src, dst, pos, num_replaced) ==
  LET found == find(s, src, pos)
  IN IF found = Npos THEN [threw |-> FALSE, ret |-> num_replaced, r |-> s]
     ELSE replaceAllLoop(replaceAt(s, found, dst).r, src, dst,
                         pos + Len(src), num_replaced + 1)

\* Range::replaceAll(source, dest): whether it threw std::invalid_argument, the
\* return value and the view afterwards
replaceAll(s, src, dst) ==
  IF Len(src) # Len(dst) THEN [threw |-> TRUE, ret |-> 0, r |-> s]
  ELSE IF Len(dst) = 0 THEN [threw |-> FALSE, ret |-> 0, r |-> s]
  ELSE replaceAllLoop(s, src, dst, 0, 0)

NoCall == [op |-> "none"]

\* r.replaceAll(src, dst)
ReplaceAll ==
  \E src \in Patterns, dst \in Patterns :
    LET res == replaceAll(r, src, dst)
    IN /\ r' = res.r
       /\ last' = [op |-> "replaceAll", before |-> r, source |-> src,
                   dest |-> dst, threw |-> res.threw, ret |-> res.ret]
       /\ UNCHANGED outsideRange

RangeNext == ReplaceAll

\* positions tried: inside the view, just past it, and the largest size_t
\* values (std::string::npos, what a failed find returns, is the largest)
Positions == (0..(MaxLen + 1)) \cup {SizeMod - 2, SizeMod - 1}

\* r.replaceAt(pos, replacement).  A copy that leaves the view is undefined:
\* it either writes through the wrapped pointer or faults.
ReplaceAt ==
  \E pos \in Positions, replacement \in Patterns :
    /\ last.op = "none"
    /\ LET res == replaceAt(r, pos, replacement)
           outside == res.ok /\ copyLeavesView(r, replacement, pos)
       IN \E fault \in (IF outside THEN BOOLEAN ELSE {FALSE}) :
            /\ r' = IF fault THEN r ELSE res.r
            /\ last' = [op |-> "replaceAt", before |-> r, pos |-> pos,
                        replacement |-> replacement, ret |-> res.ok,
                        outside |-> outside, fault |-> fault]
    /\ UNCHANGED outsideRange

\* r.find(sub); the view is only read, and At is undefined outside it
Find ==
  \E sub \in Needles :
    /\ last.op = "none"
    /\ last' = [op |-> "find", sub |-> sub, ret |-> qfind(r, sub)]
    /\ UNCHANGED r
    /\ UNCHANGED outsideRange

\* Range(b_, n): the first n elements
firstN(s, n) == SubSeq(s, 1, n)

\* Range::subpiece(first, length) for first <= size()
subpieceOf(s, first, length) ==
  LET n == IF length < Len(s) - first THEN length ELSE Len(s) - first
  IN SubSeq(s, first + 1, first + n)

\* operator== on two views of characters: equal sizes and equal bytes
rangeEquals(lhs, rhs) ==
  /\ Len(lhs) = Len(rhs)
  /\ \A i \in 0..(Len(lhs) - 1) : At(lhs, i) = At(rhs, i)

\* Range::startsWith(const const_range_type&) and (const value_type&)
startsWith(s, other) ==
  Len(s) >= Len(other) /\ rangeEquals(subpieceOf(s, 0, Len(other)), other)
startsWithValue(s, c) == Len(s) # 0 /\ At(s, 0) = c

\* endsWith comparing the front of the view, for comparison
endsWithFront(s, other) ==
  Len(s) >= Len(other) /\ rangeEquals(subpieceOf(s, 0, Len(other)), other)

\* Range::endsWith(const const_range_type&) and (const value_type&)
endsWith(s, other) ==
  Len(s) >= Len(other) /\ rangeEquals(subpiece(s, Len(s) - Len(other)), other)
endsWithValue(s, c) == Len(s) # 0 /\ At(s, Len(s) - 1) = c

\* Range::removePrefix, both overloads: b_ moves only when startsWith held
removePrefix(s, prefix) ==
  IF startsWith(s, prefix)
  THEN [ret |-> TRUE, r |-> subpiece(s, Len(prefix))]
  ELSE [ret |-> FALSE, r |-> s]
removePrefixValue(s, c) ==
  IF startsWithValue(s, c)
  THEN [ret |-> TRUE, r |-> subpiece(s, 1)]
  ELSE [ret |-> FALSE, r |-> s]

\* Range::removeSuffix, both overloads: e_ moves only when endsWith held
removeSuffix(s, suffix) ==
  IF endsWith(s, suffix)
  THEN [ret |-> TRUE, r |-> firstN(s, Len(s) - Len(suffix))]
  ELSE [ret |-> FALSE, r |-> s]
removeSuffixValue(s, c) ==
  IF endsWithValue(s, c)
  THEN [ret |-> TRUE, r |-> firstN(s, Len(s) - 1)]
  ELSE [ret |-> FALSE, r |-> s]

\* the record of a call with a range or a value argument; a value is
\* recorded as the range of that one element
AffixRecord(op, overload, arg, before, ret) ==
  [op |-> op, overload |-> overload, arg |-> arg, before |-> before, ret |-> ret]

\* r.startsWith(other), r.startsWith(c)
StartsWith ==
  /\ last.op = "none"
  /\ \/ \E other \in Patterns :
          last' = AffixRecord("startsWith", "range", other, r, startsWith(r, other))
     \/ \E c \in Chars :
          last' = AffixRecord("startsWith", "value", <<c>>, r, startsWithValue(r, c))
  /\ UNCHANGED r
  /\ UNCHANGED outsideRange

\* r.endsWith(other), r.endsWith(c)
EndsWith ==
  /\ last.op = "none"
  /\ \/ \E other \in Patterns :
          last' = AffixRecord("endsWith", "range", other, r, endsWith(r, other))
     \/ \E c \in Chars :
          last' = AffixRecord("endsWith", "value", <<c>>, r, endsWithValue(r, c))
  /\ UNCHANGED r
  /\ UNCHANGED outsideRange

\* r.removePrefix(prefix), r.removePrefix(c)
RemovePrefix ==
  /\ last.op = "none"
  /\ \/ \E prefix \in Patterns :
          LET res == removePrefix(r, prefix)
          IN /\ r' = res.r
             /\ last' = AffixRecord("removePrefix", "range", prefix, r, res.ret)
     \/ \E c \in Chars :
          LET res == removePrefixValue(r, c)
          IN /\ r' = res.r
             /\ last' = AffixRecord("removePrefix", "value", <<c>>, r, res.ret)
  /\ UNCHANGED outsideRange

\* r.removeSuffix(suffix), r.removeSuffix(c)
RemoveSuffix ==
  /\ last.op = "none"
  /\ \/ \E suffix \in Patterns :
          LET res == removeSuffix(r, suffix)
          IN /\ r' = res.r
             /\ last' = AffixRecord("removeSuffix", "range", suffix, r, res.ret)
     \/ \E c \in Chars :
          LET res == removeSuffixValue(r, c)
          IN /\ r' = res.r
             /\ last' = AffixRecord("removeSuffix", "value", <<c>>, r, res.ret)
  /\ UNCHANGED outsideRange

\* the elements of s from offset b up to, not including, offset e
window(s, b, e) == SubSeq(s, b + 1, e)

\* Range::at(i): out_of_range, or the element, here as a one-element range
at(s, i) ==
  IF i >= Len(s) THEN [threw |-> TRUE, ret |-> <<>>]
  ELSE [threw |-> FALSE, ret |-> <<At(s, i)>>]

\* Range::advance(n): out_of_range, or the offsets of b_ and e_ afterwards
advance(s, n) ==
  IF n > Len(s) THEN [threw |-> TRUE, b |-> 0, e |-> Len(s)]
  ELSE [threw |-> FALSE, b |-> n, e |-> Len(s)]

\* Range::subtract(n)
subtract(s, n) ==
  IF n > Len(s) THEN [threw |-> TRUE, b |-> 0, e |-> Len(s)]
  ELSE [threw |-> FALSE, b |-> 0, e |-> Len(s) - n]

\* subpiece refusing first = size() too, for comparison
subpieceRefusingEnd(s, first, length) ==
  IF first >= Len(s) THEN [threw |-> TRUE, b |-> 0, e |-> 0]
  ELSE LET n == IF length < Len(s) - first THEN length ELSE Len(s) - first
       IN [threw |-> FALSE, b |-> first, e |-> first + n]

\* Range::subpiece(first, length): out_of_range, or the offsets of the
\* window Range(b_ + first, std::min(length, size() - first))
subpieceOrThrow(s, first, length) ==
  IF first > Len(s) THEN [threw |-> TRUE, b |-> 0, e |-> 0]
  ELSE LET n == IF length < Len(s) - first THEN length ELSE Len(s) - first
       IN [threw |-> FALSE, b |-> first, e |-> first + n]

\* the record of a bounds-checked call: its arguments, whether it threw,
\* the offsets it computed and the range it returned
AccessRecord(op, before, n, length, res, ret) ==
  [op |-> op, before |-> before, n |-> n, length |-> length,
   threw |-> res.threw, b |-> res.b, e |-> res.e, ret |-> ret]

\* r.at(i)
AtChecked ==
  /\ last.op = "none"
  /\ \E i \in Positions :
       LET res == at(r, i)
       IN last' = [op |-> "at", before |-> r, n |-> i, threw |-> res.threw,
                   ret |-> res.ret]
  /\ UNCHANGED r
  /\ UNCHANGED outsideRange

\* r.advance(n)
Advance ==
  /\ last.op = "none"
  /\ \E n \in Positions :
       LET res == advance(r, n)
       IN /\ r' = window(r, res.b, res.e)
          /\ last' = AccessRecord("advance", r, n, 0, res, <<>>)
  /\ UNCHANGED outsideRange

\* r.subtract(n)
Subtract ==
  /\ last.op = "none"
  /\ \E n \in Positions :
       LET res == subtract(r, n)
       IN /\ r' = window(r, res.b, res.e)
          /\ last' = AccessRecord("subtract", r, n, 0, res, <<>>)
  /\ UNCHANGED outsideRange

\* r.subpiece(first, length); length defaults to npos, the largest size_t
Subpiece ==
  /\ last.op = "none"
  /\ \E first \in Positions, length \in Positions :
       LET res == subpieceOrThrow(r, first, length)
       IN last' = AccessRecord("subpiece", r, first, length, res,
                               window(r, res.b, res.e))
  /\ UNCHANGED r
  /\ UNCHANGED outsideRange

\* one call of a member function on any view
RangeCallNext ==
  \/ ReplaceAt \/ Find
  \/ StartsWith \/ EndsWith \/ RemovePrefix \/ RemoveSuffix
  \/ AtChecked \/ Advance \/ Subtract \/ Subpiece

RECURSIVE qfindValue(_, _, _)
\* qfind(haystack, needle) for one element: std::find or memchr from i on
qfindValue(h, c, i) ==
  IF i = Len(h) THEN Npos
  ELSE IF At(h, i) = c THEN i
  ELSE qfindValue(h, c, i + 1)

\* Range::split_step(const value_type& delimiter): what it returns and the
\* view it leaves
split_stepValue(s, delimiter) ==
  LET i == qfindValue(s, delimiter, 0)
      result == firstN(s, IF i = Npos THEN Len(s) ELSE i)
  IN [result |-> result,
      r |-> IF Len(result) = Len(s) THEN <<>> ELSE subpiece(s, Len(result) + 1)]

\* split_step(Range) stepping over one element only, for comparison
split_stepOverOne(s, delimiter) ==
  LET i == qfind(s, delimiter)
      result == firstN(s, IF i = Npos THEN Len(s) ELSE i)
  IN [result |-> result,
      r |-> IF Len(result) = Len(s) THEN <<>> ELSE subpiece(s, Len(result) + 1)]

\* Range::split_step(Range delimiter)
split_step(s, delimiter) ==
  LET i == qfind(s, delimiter)
      result == firstN(s, IF i = Npos THEN Len(s) ELSE i)
  IN [result |-> result,
      r |-> IF Len(result) = Len(s) THEN <<>>
            ELSE subpiece(s, Len(result) + Len(delimiter))]

\* views and delimiters for splitting, and the number of calls in a row
MaxSplitLen == 4
MaxSplitCalls == 5
SplitChars == {"a", ","}
SplitExample == <<"a", ",", "b", ",", ",", "c">>
SplitViews == SeqsUpTo(SplitChars, MaxSplitLen) \cup {SplitExample}
SplitDelimiters == {<<>>, <<",">>, <<",", ",">>, <<",", "a">>}

\* the caller's record of a run of split_step calls with one delimiter
SplitRecord(overload, source, delimiter, before, res, pieces) ==
  [op |-> "split_step", overload |-> overload, source |-> source,
   delimiter |-> delimiter, before |-> before, ret |-> res.result,
   pieces |-> Append(pieces, res.result)]

\* the first split_step of a run; delimiter is recorded as a range
SplitStepFirst ==
  /\ last.op = "none"
  /\ \/ \E c \in SplitChars :
          LET res == split_stepValue(r, c)
          IN /\ r' = res.r
             /\ last' = SplitRecord("value", r, <<c>>, r, res, <<>>)
     \/ \E d \in SplitDelimiters :
          LET res == split_step(r, d)
          IN /\ r' = res.r
             /\ last' = SplitRecord("range", r, d, r, res, <<>>)
  /\ UNCHANGED outsideRange

\* the next split_step of the run, same overload and delimiter
SplitStepAgain ==
  /\ last.op = "split_step"
  /\ Len(last.pieces) < MaxSplitCalls
  /\ LET res == IF last.overload = "value"
                THEN split_stepValue(r, At(last.delimiter, 0))
                ELSE split_step(r, last.delimiter)
     IN /\ r' = res.r
        /\ last' = SplitRecord(last.overload, last.source, last.delimiter,
                               r, res, last.pieces)
  /\ UNCHANGED outsideRange

SplitNext == SplitStepFirst \/ SplitStepAgain

(***************************************************************************)
(* HPHP::jit::ProfData: allocTransID and maybeResetCounters, each call     *)
(* split at its lock operations and atomic accesses                        *)
(***************************************************************************)
\* threads using the ProfData object, translation ids handed out, requests
\* counted
NumThreads == 2
MaxTrans == 3
MaxRequests == 3
\* Cfg::Jit::ResetProfCountersRequest
ResetProfCountersRequest == 2

Threads == 1..NumThreads
NoThread == 0
\* an empty slot of m_transRecs (a null unique_ptr)
NullRec == "null"

\* threads inside allocTransID that have not yet appended their slot
AllocPending == {t \in Threads : tpc[t] \in {"alloc_lock", "alloc_emplace"}}

\* a thread enters allocTransID()
CallAllocTransID(t) ==
  /\ tpc[t] = "idle"
  /\ Len(m_transRecs) + Cardinality(AllocPending) < MaxTrans
  /\ tpc' = [tpc EXCEPT ![t] = "alloc_lock"]
  /\ UNCHANGED <<m_transRecs, m_transLock, m_countersReset, requestCount,
                 tlocal, allocLog, resetLog>>
  /\ UNCHANGED outsideProf

\* allocTransID without mutual exclusion: the thread goes on whoever holds
\* m_transLock
AllocLockNoExclusion(t) ==
  /\ tpc[t] = "alloc_lock"
  /\ tpc' = [tpc EXCEPT ![t] = "alloc_emplace"]
  /\ UNCHANGED <<m_transRecs, m_transLock, m_countersReset, requestCount,
                 tlocal, allocLog, resetLog>>
  /\ UNCHANGED outsideProf

\* std::unique_lock lock{m_transLock}
AllocLock(t) ==
  /\ tpc[t] = "alloc_lock"
  /\ m_transLock = NoThread
  /\ m_transLock' = t
  /\ tpc' = [tpc EXCEPT ![t] = "alloc_emplace"]
  /\ UNCHANGED <<m_transRecs, m_countersReset, requestCount, tlocal,
                 allocLog, resetLog>>
  /\ UNCHANGED outsideProf

\* m_transRecs.emplace_back()
AllocEmplace(t) ==
  /\ tpc[t] = "alloc_emplace"
  /\ m_transRecs' = Append(m_transRecs, NullRec)
  /\ tpc' = [tpc EXCEPT ![t] = "alloc_return"]
  /\ UNCHANGED <<m_transLock, m_countersReset, requestCount, tlocal,
                 allocLog, resetLog>>
  /\ UNCHANGED outsideProf

\* return m_transRecs.size() - 1, then the lock's destructor unlocks
AllocReturn(t) ==
  /\ tpc[t] = "alloc_return"
  /\ allocLog' = Append(allocLog, Len(m_transRecs) - 1)
  /\ m_transLock' = IF m_transLock = t THEN NoThread ELSE m_transLock
  /\ tpc' = [tpc EXCEPT ![t] = "idle"]
  /\ UNCHANGED <<m_transRecs, m_countersReset, requestCount, tlocal, resetLog>>
  /\ UNCHANGED outsideProf

\* a request starts somewhere in the process: requestCount() grows
IncRequestCount ==
  /\ requestCount < MaxRequests
  /\ requestCount' = requestCount + 1
  /\ UNCHANGED <<m_transRecs, m_transLock, m_countersReset, tpc, tlocal,
                 allocLog, resetLog>>
  /\ UNCHANGED outsideProf

\* a thread enters maybeResetCounters()
CallMaybeResetCounters(t) ==
  /\ tpc[t] = "idle"
  /\ tpc' = [tpc EXCEPT ![t] = "reset_flag"]
  /\ UNCHANGED <<m_transRecs, m_transLock, m_countersReset, requestCount,
                 tlocal, allocLog, resetLog>>
  /\ UNCHANGED outsideProf

\* if (m_countersReset.load(acquire)) return;
ResetCheckFlag(t) ==
  /\ tpc[t] = "reset_flag"
  /\ tpc' = [tpc EXCEPT ![t] = IF m_countersReset THEN "idle" ELSE "reset_count"]
  /\ UNCHANGED <<m_transRecs, m_transLock, m_countersReset, requestCount,
                 tlocal, allocLog, resetLog>>
  /\ UNCHANGED outsideProf

\* if (requestCount() < Cfg::Jit::ResetProfCountersRequest) return;
ResetCheckCount(t) ==
  /\ tpc[t] = "reset_count"
  /\ IF requestCount < ResetProfCountersRequest
     THEN /\ tpc' = [tpc EXCEPT ![t] = "idle"]
          /\ tlocal' = [tlocal EXCEPT ![t] = 0]
     ELSE /\ tpc' = [tpc EXCEPT ![t] = "reset_lock"]
          /\ tlocal' = [tlocal EXCEPT ![t] = requestCount]
  /\ UNCHANGED <<m_transRecs, m_transLock, m_countersReset, requestCount,
                 allocLog, resetLog>>
  /\ UNCHANGED outsideProf

\* std::unique_lock lock{m_transLock}
ResetLock(t) ==
  /\ tpc[t] = "reset_lock"
  /\ m_transLock = NoThread
  /\ m_transLock' = t
  /\ tpc' = [tpc EXCEPT ![t] = "reset_recheck"]
  /\ UNCHANGED <<m_transRecs, m_countersReset, requestCount, tlocal,
                 allocLog, resetLog>>
  /\ UNCHANGED outsideProf

\* maybeResetCounters without the second look at m_countersReset
ResetRecheckMissing(t) ==
  /\ tpc[t] = "reset_recheck"
  /\ tpc' = [tpc EXCEPT ![t] = "reset_counters"]
  /\ UNCHANGED <<m_transRecs, m_transLock, m_countersReset, requestCount,
                 tlocal, allocLog, resetLog>>
  /\ UNCHANGED outsideProf

\* if (m_countersReset.load(acquire)) return;   (under the lock)
ResetRecheck(t) ==
  /\ tpc[t] = "reset_recheck"
  /\ IF m_countersReset
     THEN /\ tpc' = [tpc EXCEPT ![t] = "idle"]
          /\ tlocal' = [tlocal EXCEPT ![t] = 0]
          /\ m_transLock' = NoThread
     ELSE /\ tpc' = [tpc EXCEPT ![t] = "reset_counters"]
          /\ UNCHANGED <<tlocal, m_transLock>>
  /\ UNCHANGED <<m_transRecs, m_countersReset, requestCount, allocLog, resetLog>>
  /\ UNCHANGED outsideProf

\* m_counters.resetAllCounters(Cfg::Jit::PGOThreshold)
ResetAllCounters(t) ==
  /\ tpc[t] = "reset_counters"
  /\ resetLog' = Append(resetLog, [by |-> t, observed |-> tlocal[t],
                                   flag |-> m_countersReset])
  /\ tpc' = [tpc EXCEPT ![t] = "reset_store"]
  /\ UNCHANGED <<m_transRecs, m_transLock, m_countersReset, requestCount,
                 tlocal, allocLog>>
  /\ UNCHANGED outsideProf

\* m_countersReset.store(true, release), then the lock's destructor unlocks
ResetStore(t) ==
  /\ tpc[t] = "reset_store"
  /\ m_countersReset' = TRUE
  /\ m_transLock' = NoThread
  /\ tpc' = [tpc EXCEPT ![t] = "idle"]
  /\ tlocal' = [tlocal EXCEPT ![t] = 0]
  /\ UNCHANGED <<m_transRecs, requestCount, allocLog, resetLog>>
  /\ UNCHANGED outsideProf

ProfNext ==
  \/ IncRequestCount
  \/ \E t \in Threads : CallAllocTransID(t)
  \/ \E t \in Threads : AllocLock(t)
  \/ \E t \in Threads : AllocEmplace(t)
  \/ \E t \in Threads : AllocReturn(t)
  \/ \E t \in Threads : CallMaybeResetCounters(t)
  \/ \E t \in Threads : ResetCheckFlag(t)
  \/ \E t \in Threads : ResetCheckCount(t)
  \/ \E t \in Threads : ResetLock(t)
  \/ \E t \in Threads : ResetRecheck(t)
  \/ \E t \in Threads : ResetAllCounters(t)
  \/ \E t \in Threads : ResetStore(t)

(***************************************************************************)
(* Claims about ProfData::allocTransID and ProfData::maybeResetCounters    *)
(***************************************************************************)
\* C3: under any interleaving of concurrent allocTransID calls the ids
\* returned are 0, 1, 2, ... in lock-acquisition order (so they are pairwise
\* distinct), every id returned is an index of the table, and the table
\* never shrinks.
C3_AllocTransIDDense ==
  /\ [](\A i \in 1..Len(allocLog) :
           allocLog[i] = i - 1 /\ allocLog[i] < Len(m_transRecs))
  /\ [][Len(m_transRecs') >= Len(m_transRecs)]_vars

\* an id has been returned, and two calls contend for m_transLock: one is
\* about to return the next id while the other waits
C3_Witness ==
  /\ Len(allocLog) >= 1
  /\ \E t1 \in Threads, t2 \in Threads :
       /\ tpc[t1] = "alloc_return" /\ m_transLock = t1
       /\ tpc[t2] = "alloc_lock"

\* C5: under any interleaving of maybeResetCounters calls the counters are
\* reset at most once, only by a call that observed requestCount() >=
\* ResetProfCountersRequest (and found the flag clear under the lock); the
\* flag is never cleared, and a call that finds the flag set returns without
\* changing anything.
C5_ResetAtMostOnce ==
  /\ [](/\ Len(resetLog) <= 1
        /\ \A i \in 1..Len(resetLog) :
             resetLog[i].observed >= ResetProfCountersRequest /\ ~resetLog[i].flag)
  /\ [][/\ m_countersReset => m_countersReset'
        /\ \A t \in Threads :
             (tpc[t] = "reset_flag" /\ m_countersReset /\ tpc'[t] # tpc[t])
               => /\ tpc'[t] = "idle"
                  /\ UNCHANGED <<m_transRecs, m_transLock, m_countersReset,
                                 requestCount, tlocal, allocLog, resetLog>>]_vars

\* the counters were reset by one call while a second call, which passed the
\* request-count test before, now holds the lock and finds the flag set
C5_Witness ==
  /\ Len(resetLog) = 1
  /\ m_countersReset
  /\ \E t \in Threads :
       tpc[t] = "reset_recheck" /\ m_transLock = t /\ t # resetLog[1].by


(***************************************************************************)
(* The ProfData singleton: processInitProfData, requestInitProfData,       *)
(* requestExitProfData, discardProfData, the static destructors, and the   *)
(* Treadmill that runs a job once every request that was in flight when    *)
(* the job was enqueued has finished                                       *)
(***************************************************************************)
\* request threads, threads calling discardProfData, discardProfData calls
NumRequestThreads == 2
NumDiscarders == 2
MaxDiscards == 2

RequestThreads == 1..NumRequestThreads
Discarders == 1..NumDiscarders
\* nullptr, and the one ProfData object processInitProfData creates
NullPtr == 0
TheProfData == 1

\* --- Treadmill (hphp/runtime/base/treadmill) ---
InFlight == {q \in RequestThreads : reqpc[q] # "out"}

\* Treadmill::enqueue(job): the job waits for the requests now in flight
TreadmillEnqueue(queue, kind, data) ==
  Append(queue, [kind |-> kind, data |-> data, waitFor |-> InFlight])

\* Treadmill::startRequest, at the start of a request
TreadmillStartRequest(q) ==
  /\ pstate # "exited"
  /\ reqpc[q] = "out"
  /\ reqpc' = [reqpc EXCEPT ![q] = "started"]
  /\ UNCHANGED <<pstate, cfgPGO, cfgKeepProfData, s_profData, s_profDataHolder,
                 rl_profData, deleted, treadmill, sawCleared, cleared, dpc,
                 ddata, discardCalls>>
  /\ UNCHANGED outsideLife

\* Treadmill::finishRequest, at the end of a request
TreadmillFinishRequest(q) ==
  /\ pstate # "exited"
  /\ reqpc[q] = "exited"
  /\ reqpc' = [reqpc EXCEPT ![q] = "out"]
  /\ treadmill' = [i \in 1..Len(treadmill) |->
                     [treadmill[i] EXCEPT !.waitFor = @ \ {q}]]
  /\ sawCleared' = [sawCleared EXCEPT ![q] = FALSE]
  /\ UNCHANGED <<pstate, cfgPGO, cfgKeepProfData, s_profData, s_profDataHolder,
                 rl_profData, deleted, cleared, dpc, ddata, discardCalls>>
  /\ UNCHANGED outsideLife

\* the Treadmill runs a job nobody is waited for any more and destroys it; the
\* destructor of a ProfDataTreadmillDeleter destroys the ProfData it owns
TreadmillRun ==
  /\ pstate # "exited"
  /\ \E i \in 1..Len(treadmill) :
       /\ treadmill[i].waitFor = {}
       /\ deleted' = IF treadmill[i].kind = "ProfDataTreadmillDeleter"
                        /\ treadmill[i].data # NullPtr
                     THEN deleted + 1 ELSE deleted
       /\ treadmill' = SubSeq(treadmill, 1, i - 1) \o
                       SubSeq(treadmill, i + 1, Len(treadmill))
  /\ UNCHANGED <<pstate, cfgPGO, cfgKeepProfData, s_profData, s_profDataHolder,
                 rl_profData, reqpc, sawCleared, cleared, dpc, ddata,
                 discardCalls>>
  /\ UNCHANGED outsideLife

\* --- prof-data.cpp ---
\* processInitProfData()
ProcessInitProfData ==
  /\ pstate = "pre"
  /\ pstate' = "running"
  /\ s_profData' = IF cfgPGO THEN TheProfData ELSE s_profData
  /\ UNCHANGED <<cfgPGO, cfgKeepProfData, s_profDataHolder, rl_profData,
                 deleted, treadmill, reqpc, sawCleared, cleared, dpc, ddata,
                 discardCalls>>
  /\ UNCHANGED outsideLife

\* requestInitProfData()
RequestInitProfData(q) ==
  /\ pstate # "exited"
  /\ reqpc[q] = "started"
  /\ rl_profData' = [rl_profData EXCEPT ![q] = s_profData]
  /\ sawCleared' = [sawCleared EXCEPT ![q] = cleared]
  /\ reqpc' = [reqpc EXCEPT ![q] = "inited"]
  /\ UNCHANGED <<pstate, cfgPGO, cfgKeepProfData, s_profData, s_profDataHolder,
                 deleted, treadmill, cleared, dpc, ddata, discardCalls>>
  /\ UNCHANGED outsideLife

\* requestExitProfData()
RequestExitProfData(q) ==
  /\ pstate # "exited"
  /\ reqpc[q] = "inited"
  /\ rl_profData' = [rl_profData EXCEPT ![q] = NullPtr]
  /\ reqpc' = [reqpc EXCEPT ![q] = "exited"]
  /\ UNCHANGED <<pstate, cfgPGO, cfgKeepProfData, s_profData, s_profDataHolder,
                 deleted, treadmill, sawCleared, cleared, dpc, ddata,
                 discardCalls>>
  /\ UNCHANGED outsideLife

\* a thread enters discardProfData()
CallDiscardProfData(d) ==
  /\ pstate # "exited"
  /\ dpc[d] = "idle"
  /\ discardCalls < MaxDiscards
  /\ discardCalls' = discardCalls + 1
  /\ dpc' = [dpc EXCEPT ![d] = "load"]
  /\ UNCHANGED <<pstate, cfgPGO, cfgKeepProfData, s_profData, s_profDataHolder,
                 rl_profData, deleted, treadmill, reqpc, sawCleared, cleared,
                 ddata>>
  /\ UNCHANGED outsideLife

\* if (s_profData.load(acquire) == nullptr) return;
DiscardLoad(d) ==
  /\ pstate # "exited"
  /\ dpc[d] = "load"
  /\ dpc' = [dpc EXCEPT ![d] = IF s_profData = NullPtr THEN "idle" ELSE "exchange"]
  /\ UNCHANGED <<pstate, cfgPGO, cfgKeepProfData, s_profData, s_profDataHolder,
                 rl_profData, deleted, treadmill, reqpc, sawCleared, cleared,
                 ddata, discardCalls>>
  /\ UNCHANGED outsideLife

\* a discardProfData that reads the pointer where it should exchange it
DiscardReadsPointer(d) ==
  /\ pstate # "exited"
  /\ dpc[d] = "exchange"
  /\ ddata' = [ddata EXCEPT ![d] = s_profData]
  /\ dpc' = [dpc EXCEPT ![d] = IF s_profData # NullPtr THEN "reset_holder"
                               ELSE "enqueue_free"]
  /\ UNCHANGED <<pstate, cfgPGO, cfgKeepProfData, s_profData, s_profDataHolder,
                 rl_profData, deleted, treadmill, reqpc, sawCleared, cleared,
                 discardCalls>>
  /\ UNCHANGED outsideLife

\* auto data = s_profData.exchange(nullptr, acq_rel); if (data != nullptr) ...
DiscardExchange(d) ==
  /\ pstate # "exited"
  /\ dpc[d] = "exchange"
  /\ ddata' = [ddata EXCEPT ![d] = s_profData]
  /\ s_profData' = NullPtr
  /\ cleared' = TRUE
  /\ dpc' = [dpc EXCEPT ![d] = IF s_profData # NullPtr THEN "reset_holder"
                               ELSE "enqueue_free"]
  /\ UNCHANGED <<pstate, cfgPGO, cfgKeepProfData, s_profDataHolder, rl_profData,
                 deleted, treadmill, reqpc, sawCleared, discardCalls>>
  /\ UNCHANGED outsideLife

\* s_profDataHolder.reset(data); if (!Cfg::Eval::KeepProfData) ...
DiscardResetHolder(d) ==
  /\ pstate # "exited"
  /\ dpc[d] = "reset_holder"
  /\ deleted' = IF s_profDataHolder # NullPtr THEN deleted + 1 ELSE deleted
  /\ s_profDataHolder' = ddata[d]
  /\ dpc' = [dpc EXCEPT ![d] = IF ~cfgKeepProfData THEN "enqueue_deleter"
                               ELSE "enqueue_free"]
  /\ UNCHANGED <<pstate, cfgPGO, cfgKeepProfData, s_profData, rl_profData,
                 treadmill, reqpc, sawCleared, cleared, ddata, discardCalls>>
  /\ UNCHANGED outsideLife

\* a discardProfData that destroys the object on the spot instead of handing it
\* to the Treadmill
DiscardDeleteNow(d) ==
  /\ pstate # "exited"
  /\ dpc[d] = "enqueue_deleter"
  /\ deleted' = IF s_profDataHolder # NullPtr THEN deleted + 1 ELSE deleted
  /\ s_profDataHolder' = NullPtr
  /\ dpc' = [dpc EXCEPT ![d] = "enqueue_free"]
  /\ UNCHANGED <<pstate, cfgPGO, cfgKeepProfData, s_profData, rl_profData,
                 treadmill, reqpc, sawCleared, cleared, ddata, discardCalls>>
  /\ UNCHANGED outsideLife

\* Treadmill::enqueue(ProfDataTreadmillDeleter{std::move(s_profDataHolder)})
DiscardEnqueueDeleter(d) ==
  /\ pstate # "exited"
  /\ dpc[d] = "enqueue_deleter"
  /\ treadmill' = TreadmillEnqueue(treadmill, "ProfDataTreadmillDeleter",
                                   s_profDataHolder)
  /\ s_profDataHolder' = NullPtr
  /\ dpc' = [dpc EXCEPT ![d] = "enqueue_free"]
  /\ UNCHANGED <<pstate, cfgPGO, cfgKeepProfData, s_profData, rl_profData,
                 deleted, reqpc, sawCleared, cleared, ddata, discardCalls>>
  /\ UNCHANGED outsideLife

\* Treadmill::enqueue(VasmBlockCounters::free), and return
DiscardEnqueueFree(d) ==
  /\ pstate # "exited"
  /\ dpc[d] = "enqueue_free"
  /\ treadmill' = TreadmillEnqueue(treadmill, "VasmBlockCounters::free", NullPtr)
  /\ ddata' = [ddata EXCEPT ![d] = NullPtr]
  /\ dpc' = [dpc EXCEPT ![d] = "idle"]
  /\ UNCHANGED <<pstate, cfgPGO, cfgKeepProfData, s_profData, s_profDataHolder,
                 rl_profData, deleted, reqpc, sawCleared, cleared, discardCalls>>
  /\ UNCHANGED outsideLife

\* process end: the static destructors run in reverse order of construction,
\* ~s_profDataHolder and then ~ProfDataShutdownDeleter (delete s_profData.load())
ProcessExit ==
  /\ pstate = "running"
  /\ \A d \in Discarders : dpc[d] = "idle"
  /\ pstate' = "exited"
  /\ deleted' = deleted + (IF s_profDataHolder # NullPtr THEN 1 ELSE 0)
                        + (IF s_profData # NullPtr THEN 1 ELSE 0)
  /\ s_profDataHolder' = NullPtr
  /\ UNCHANGED <<cfgPGO, cfgKeepProfData, s_profData, rl_profData, treadmill,
                 reqpc, sawCleared, cleared, dpc, ddata, discardCalls>>
  /\ UNCHANGED outsideLife

LifeNext ==
  \/ ProcessInitProfData
  \/ ProcessExit
  \/ TreadmillRun
  \/ \E q \in RequestThreads : TreadmillStartRequest(q)
  \/ \E q \in RequestThreads : RequestInitProfData(q)
  \/ \E q \in RequestThreads : RequestExitProfData(q)
  \/ \E q \in RequestThreads : TreadmillFinishRequest(q)
  \/ \E d \in Discarders : CallDiscardProfData(d)
  \/ \E d \in Discarders : DiscardLoad(d)
  \/ \E d \in Discarders : DiscardExchange(d)
  \/ \E d \in Discarders : DiscardResetHolder(d)
  \/ \E d \in Discarders : DiscardEnqueueDeleter(d)
  \/ \E d \in Discarders : DiscardEnqueueFree(d)

\* C4: no request ever holds a destroyed ProfData.  While the process runs,
\* the object a request obtained from requestInitProfData has not been
\* destroyed as long as the request holds it, and a request whose
\* requestInitProfData ran after discardProfData cleared the global pointer
\* holds null.
C4_NoRequestHoldsDestroyed ==
  pstate # "exited" =>
    \A q \in RequestThreads :
      /\ rl_profData[q] # NullPtr => deleted = 0
      /\ (reqpc[q] = "inited" /\ sawCleared[q]) => rl_profData[q] = NullPtr

\* the deleter of the object sits on the Treadmill waiting for a request that
\* still holds the object, while a request that started after the discard
\* holds null
C4_Witness ==
  /\ pstate = "running"
  /\ \E i \in 1..Len(treadmill) :
       /\ treadmill[i].kind = "ProfDataTreadmillDeleter"
       /\ treadmill[i].data = TheProfData
       /\ \E q \in treadmill[i].waitFor : rl_profData[q] = TheProfData
  /\ \E q \in RequestThreads :
       reqpc[q] = "inited" /\ sawCleared[q] /\ rl_profData[q] = NullPtr

\* the Treadmill jobs that own the ProfData object, and those that free the
\* block counters
ProfDataJobs ==
  {i \in 1..Len(treadmill) :
     treadmill[i].kind = "ProfDataTreadmillDeleter" /\ treadmill[i].data # NullPtr}
FreeJobs ==
  {i \in 1..Len(treadmill) : treadmill[i].kind = "VasmBlockCounters::free"}
TeardownOnce ==
  /\ deleted <= 1
  /\ Cardinality(ProfDataJobs) + deleted <= 1
  /\ pstate = "exited" =>
       IF cfgPGO THEN Cardinality(ProfDataJobs) + deleted = 1 ELSE deleted = 0
  /\ (pstate = "exited" /\ deleted = 1 /\ cfgKeepProfData /\ discardCalls > 0)
       => Len(treadmill) = Cardinality(FreeJobs)
\* the return of a discardProfData call whose load found nullptr
EarlyReturnEnqueuesNothing ==
  \A d \in Discarders :
    (dpc[d] = "load" /\ dpc'[d] # "load" /\ s_profData = NullPtr)
      => (dpc'[d] = "idle" /\ treadmill' = treadmill
          /\ s_profDataHolder' = s_profDataHolder /\ deleted' = deleted)

MaxConfigs == 2
MaxSuites == 2

\* std::find(v.begin(), v.end(), x) != v.end()
stdFound(v, x) == \E k \in 1..Len(v) : v[k] = x

\* the ASCII letters and digits
Letters ==
  {"a", "b", "c", "d", "e", "f", "g", "h", "i", "j", "k", "l", "m",
   "n", "o", "p", "q", "r", "s", "t", "u", "v", "w", "x", "y", "z",
   "A", "B", "C", "D", "E", "F", "G", "H", "I", "J", "K", "L", "M",
   "N", "O", "P", "Q", "R", "S", "T", "U", "V", "W", "X", "Y", "Z"}
Digits == {"0", "1", "2", "3", "4", "5", "6", "7", "8", "9"}

\* a character test that lets '_' through, for comparison
isalnumOrUnderscore(c) == c \in Letters \cup Digits \cup {"_"}

\* std::isalnum in the "C" locale, over ASCII characters
isalnum(c) == c \in Letters \cup Digits

RECURSIVE splitDots(_, _, _)
\* folly::split('.', publicName, parts, false): empty pieces are kept
splitDots(name, k, piece) ==
  IF k > Len(name) THEN <<piece>>
  ELSE IF name[k] = "." THEN <<piece>> \o splitDots(name, k + 1, <<>>)
  ELSE splitDots(name, k + 1, Append(piece, name[k]))

\* isValidPublicName(publicName)
isValidPublicName(publicName) ==
  IF publicName = <<>> THEN FALSE
  ELSE IF publicName[1] = "." \/ publicName[Len(publicName)] = "." THEN FALSE
  ELSE LET parts == splitDots(publicName, 1, <<>>)
       IN \A p \in 1..Len(parts) :
            /\ parts[p] # <<>>
            /\ ~(\E k \in 1..Len(parts[p]) :
                   ~isalnum(parts[p][k]) /\ parts[p][k] # "-")

\* the most significant bit of a uint16_t
Msb16 == 2 ^ 15

\* a check that, wrongly, looks at the first extension only
echConfigHasMandatoryExtensionFirstOnly(config) ==
  /\ config.extensions # <<>>
  /\ (config.extensions[1] \div Msb16) % 2 = 1

\* echConfigHasMandatoryExtension(config): (msb & extType) != 0 for some
\* extension
echConfigHasMandatoryExtension(config) ==
  \E k \in 1..Len(config.extensions) :
    (config.extensions[k] \div Msb16) % 2 = 1

\* hpke::getKDFId(getHashFunction(getCipherSuite(aead_id))): the KDF of the
\* hash associated with the AEAD (AES-128-GCM and ChaCha20-Poly1305 go with
\* SHA-256, AES-256-GCM with SHA-384)
associatedCipherKdf(aead_id) ==
  CASE aead_id = 1 -> 1
    [] aead_id = 2 -> 2
    [] aead_id = 3 -> 1
    [] OTHER -> 0

RECURSIVE selectSuiteLast(_, _, _)
\* a selection that, wrongly, keeps the last usable suite instead of the first
selectSuiteLast(cipherSuites, aeads, k) ==
  IF k > Len(cipherSuites) THEN 0
  ELSE LET later == selectSuiteLast(cipherSuites, aeads, k + 1)
       IN IF later # 0 THEN later
          ELSE IF /\ stdFound(aeads, cipherSuites[k].aead_id)
                  /\ cipherSuites[k].kdf_id = associatedCipherKdf(cipherSuites[k].aead_id)
               THEN k ELSE 0

RECURSIVE selectSuite(_, _, _)
\* negotiateECHConfig, the loop over config.key_config.cipher_suites from the
\* k-th suite on: the index of the suite it returns with, 0 if it falls through
selectSuite(cipherSuites, aeads, k) ==
  IF k > Len(cipherSuites) THEN 0
  ELSE IF /\ stdFound(aeads, cipherSuites[k].aead_id)
          /\ cipherSuites[k].kdf_id = associatedCipherKdf(cipherSuites[k].aead_id)
       THEN k
       ELSE selectSuite(cipherSuites, aeads, k + 1)

NoneNegotiated == [status |-> "none"]

RECURSIVE negotiateFrom(_, _, _, _)
\* negotiateECHConfig, the loop over configs from the i-th config on
negotiateFrom(cfgs, kems, aeads, i) ==
  IF i > Len(cfgs) THEN NoneNegotiated
  ELSE LET config == cfgs[i]
           suite == selectSuite(config.cipher_suites, aeads, 1)
       IN IF echConfigHasMandatoryExtension(config)
            THEN negotiateFrom(cfgs, kems, aeads, i + 1)
          ELSE IF ~isValidPublicName(config.public_name)
            THEN negotiateFrom(cfgs, kems, aeads, i + 1)
          ELSE IF ~stdFound(kems, config.kem_id)
            THEN negotiateFrom(cfgs, kems, aeads, i + 1)
          ELSE IF suite = 0
            THEN negotiateFrom(cfgs, kems, aeads, i + 1)
          ELSE [status |-> "some", config |-> config,
                configId |-> config.config_id,
                maxLen |-> config.maximum_name_length,
                cipherSuite |-> config.cipher_suites[suite]]

\* negotiateECHConfig(configs, supportedKEMs, supportedAeads)
negotiateECHConfig(cfgs, kems, aeads) == negotiateFrom(cfgs, kems, aeads, 1)

\* --- the inputs explored ---
\* cipher suites: (SHA-256, AES-128-GCM), (SHA-256, AES-256-GCM), which pairs
\* an AEAD with a KDF that is not its hash's, and (SHA-384, AES-256-GCM)
SuiteChoices == {[kdf_id |-> 1, aead_id |-> 1], [kdf_id |-> 1, aead_id |-> 2],
                 [kdf_id |-> 2, aead_id |-> 2]}
SuiteLists == SeqsUpTo(SuiteChoices, MaxSuites)

\* a config but for its config_id and maximum_name_length.  KEM 16 (P-256) is
\* supported by the client, KEM 17 (P-384) is not.  A config that fails an
\* earlier test is never asked for its suites, so those carry one fixed suite.
ConfigShapes ==
  {[extensions |-> <<10>>, public_name |-> <<"a", "-", "1", ".", "b">>,
    kem_id |-> 16, cipher_suites |-> cs] : cs \in SuiteLists}
  \cup
  {[extensions |-> <<10, Msb16 + 10>>, public_name |-> <<"a", ".", "b">>,
    kem_id |-> 16, cipher_suites |-> <<[kdf_id |-> 1, aead_id |-> 1]>>],
   [extensions |-> <<>>, public_name |-> <<"a", ".", ".", "b">>,
    kem_id |-> 16, cipher_suites |-> <<[kdf_id |-> 1, aead_id |-> 1]>>],
   [extensions |-> <<>>, public_name |-> <<"a", "_", "b">>,
    kem_id |-> 16, cipher_suites |-> <<[kdf_id |-> 1, aead_id |-> 1]>>],
   [extensions |-> <<>>, public_name |-> <<"a", ".", "b">>,
    kem_id |-> 17, cipher_suites |-> <<[kdf_id |-> 1, aead_id |-> 1]>>]}

\* the i-th config of a list: its config_id and maximum_name_length tell it
\* from the others
MakeConfig(shape, i) ==
  [extensions |-> shape.extensions, public_name |-> shape.public_name,
   kem_id |-> shape.kem_id, cipher_suites |-> shape.cipher_suites,
   config_id |-> i, maximum_name_length |-> 10 * i]

ConfigLists ==
  {[i \in 1..Len(shapes) |-> MakeConfig(shapes[i], i)] :
     shapes \in SeqsUpTo(ConfigShapes, MaxConfigs)}

\* public names: every name of up to MaxNameLen characters over a letter, a
\* digit, '.', '-' and '_', and the names the specification lists
MaxNameLen == 4
NameChars == {"x", "1", ".", "-", "_"}
ExampleCom == <<"e", "x", "a", "m", "p", "l", "e", ".", "c", "o", "m">>
RejectedExamples ==
  {<<>>, <<".", "x">>, <<"x", ".">>, <<"x", ".", ".", "y">>, <<"x", "_", "y">>}
PublicNames ==
  SeqsUpTo(NameChars, MaxNameLen) \cup {ExampleCom} \cup RejectedExamples

\* a config that passes every test but, possibly, that of its public name
NamedConfig(name, i) ==
  MakeConfig([extensions |-> <<10>>, public_name |-> name, kem_id |-> 16,
              cipher_suites |-> <<[kdf_id |-> 1, aead_id |-> 1]>>], i)

\* a config of any public name, alone or followed by one of a valid name
NamedConfigLists ==
  {<<NamedConfig(name, 1)>> : name \in PublicNames}
    \cup {<<NamedConfig(name, 1), NamedConfig(ExampleCom, 2)>> :
            name \in PublicNames}

\* the client calls negotiateECHConfig on the configs it received
NegotiateECHConfig ==
  /\ negotiated.status = "pending"
  /\ negotiated' = negotiateECHConfig(configs, supportedKEMs, supportedAeads)
  /\ UNCHANGED <<configs, supportedKEMs, supportedAeads>>
  /\ UNCHANGED outsideNeg

NegNext == NegotiateECHConfig

\* --- claims ---
\* a config satisfies the four predicates
Acceptable(config, kems, aeads) ==
  /\ \A k \in 1..Len(config.extensions) : config.extensions[k] < Msb16
  /\ isValidPublicName(config.public_name)
  /\ \E k \in 1..Len(kems) : kems[k] = config.kem_id
  /\ \E j \in 1..Len(config.cipher_suites) :
       /\ \E k \in 1..Len(aeads) : aeads[k] = config.cipher_suites[j].aead_id
       /\ config.cipher_suites[j].kdf_id =
            associatedCipherKdf(config.cipher_suites[j].aead_id)

AcceptableConfigs ==
  {i \in 1..Len(configs) : Acceptable(configs[i], supportedKEMs, supportedAeads)}

\* C6: negotiateECHConfig returns none if and only if no config of the list
\* satisfies all four predicates.
C6_NoneIffNoAcceptableConfig ==
  negotiated.status # "pending" =>
    (negotiated.status = "none" <=> AcceptableConfigs = {})

\* none is returned for a list whose configs each fail a different predicate,
\* one of them carrying a mandatory extension after an optional one
C6_Witness ==
  /\ negotiated.status = "none"
  /\ Len(configs) = MaxConfigs
  /\ \E i \in 1..Len(configs) : Len(configs[i].extensions) = 2
  /\ \E i \in 1..Len(configs) : ~isValidPublicName(configs[i].public_name)

\* the suites of a config the client can use, by position
UsableSuites(config, aeads) ==
  {j \in 1..Len(config.cipher_suites) :
     /\ \E k \in 1..Len(aeads) : aeads[k] = config.cipher_suites[j].aead_id
     /\ config.cipher_suites[j].kdf_id =
          associatedCipherKdf(config.cipher_suites[j].aead_id)}

\* C7: when some config satisfies the four predicates, negotiateECHConfig
\* returns the earliest such config with that config's config_id and
\* maximum_name_length, and the suite selected is the first of that config's
\* suites whose AEAD is supported and whose KDF matches.
C7_EarliestConfigFirstSuite ==
  (negotiated.status # "pending" /\ AcceptableConfigs # {}) =>
    LET config == configs[Least(AcceptableConfigs)]
    IN /\ negotiated.status = "some"
       /\ negotiated.config = config
       /\ negotiated.configId = config.config_id
       /\ negotiated.maxLen = config.maximum_name_length
       /\ negotiated.cipherSuite =
            config.cipher_suites[Least(UsableSuites(config, supportedAeads))]

\* two configs of the list are acceptable, and the one chosen offers two
\* usable suites that differ
C7_Witness ==
  /\ negotiated.status = "some"
  /\ Len(configs) = MaxConfigs
  /\ Cardinality(AcceptableConfigs) = 2
  /\ LET usable == UsableSuites(negotiated.config, supportedAeads)
     IN /\ Cardinality(usable) = 2
        /\ \E j1 \in usable, j2 \in usable :
             negotiated.config.cipher_suites[j1] # negotiated.config.cipher_suites[j2]

\* a public name as the claim describes it: not empty, no '.' at either
\* end, no two '.' in a row, and otherwise letters, digits and '-' only
WellFormedName(name) ==
  /\ name # <<>>
  /\ name[1] # "." /\ name[Len(name)] # "."
  /\ \A k \in 1..(Len(name) - 1) : ~(name[k] = "." /\ name[k + 1] = ".")
  /\ \A k \in 1..Len(name) : name[k] \in Letters \cup Digits \cup {"-", "."}

\* C22: isValidPublicName(name) is true exactly when name is non-empty, does
\* not start or end with '.', and every '.'-separated label is non-empty and
\* made of alphanumeric characters and '-' only; "example.com" is accepted,
\* "", ".x", "x.", "x..y" and "x_y" are rejected; negotiateECHConfig skips
\* every config whose public name is rejected.
C22_PublicNameLabels ==
  negotiated.status # "pending" =>
    /\ \A i \in 1..Len(configs) :
         isValidPublicName(configs[i].public_name)
           <=> WellFormedName(configs[i].public_name)
    /\ isValidPublicName(ExampleCom)
    /\ \A name \in RejectedExamples : ~isValidPublicName(name)
    /\ negotiated.status = "some" => WellFormedName(negotiated.config.public_name)
    /\ LET ok == {i \in 1..Len(configs) : WellFormedName(configs[i].public_name)}
       IN IF ok = {} THEN negotiated.status = "none"
          ELSE /\ negotiated.status = "some"
               /\ negotiated.configId = Least(ok)

\* a config named "x_y" was skipped for the one after it
C22_Witness ==
  /\ negotiated.status = "some" /\ negotiated.configId = 2
  /\ configs[1].public_name = <<"x", "_", "y">>

(***************************************************************************)
(* fizz::ech: calculateECHPadding.  size_t arithmetic wraps modulo SizeMod, *)
(* a power of two that 32 divides, as 2^64 is                               *)
(***************************************************************************)
PadSpan == 34
MaxNames == 2
MaxHostLen == 2

\* a server_name extension decoded: its list of host names, each name
\* standing for its length
serverNameList(ext) == ext.extension_data

\* getExtension<ServerNameList>: position of the first extension of type
\* server_name, 0 when there is none
getServerNameList(extensions) ==
  LET hits == {i \in 1..Len(extensions) :
                 extensions[i].extension_type = "server_name"}
  IN IF hits = {} THEN 0 ELSE Least(hits)

\* the rounding step computed on currentLen itself and not on currentLen - 1
calculateECHPaddingRoundsLen(chlo, encodedSize, maxLen) ==
  LET sni == getServerNameList(chlo.extensions)
      names == serverNameList(chlo.extensions[sni])
  IN IF sni # 0 /\ Len(names) = 0
     THEN [threw |-> TRUE, padding |-> 0]
     ELSE LET padding0 == IF sni # 0
                          THEN IF names[1] < maxLen
                               THEN sizeSub(maxLen, names[1]) ELSE 0
                          ELSE sizeAdd(maxLen, 9)
              currentLen == sizeAdd(encodedSize, padding0)
          IN [threw |-> FALSE,
              padding |-> sizeAdd(padding0, sizeSub(31, currentLen % 32))]

\* calculateECHPadding(chlo, encodedSize, maxLen); a host name is modelled by
\* its length, which is all the function reads of it.
\* server_name_list.at(0) throws std::out_of_range on an empty list.
calculateECHPadding(chlo, encodedSize, maxLen) ==
  LET sni == getServerNameList(chlo.extensions)
      names == serverNameList(chlo.extensions[sni])
  IN IF sni # 0 /\ Len(names) = 0
     THEN [threw |-> TRUE, padding |-> 0]
     ELSE LET padding0 == IF sni # 0
                          THEN IF names[1] < maxLen
                               THEN sizeSub(maxLen, names[1]) ELSE 0
                          ELSE sizeAdd(maxLen, 9)
              currentLen == sizeAdd(encodedSize, padding0)
          IN [threw |-> FALSE,
              padding |-> sizeAdd(padding0,
                            sizeSub(31, sizeSub(currentLen, 1) % 32))]

\* the sizes tried: near zero and near the top of the size type
PadSizes == {n \in 0..(SizeMod - 1) : n <= PadSpan \/ n >= SizeMod - PadSpan}
NameLists == UNION {[1..n -> 0..MaxHostLen] : n \in 0..MaxNames}
PadExtensionLists ==
  {<<>>, <<[extension_type |-> "supported_versions", extension_data |-> <<1>>]>>}
  \cup {<<[extension_type |-> "server_name", extension_data |-> l]>> :
          l \in NameLists}
  \cup {<<[extension_type |-> "supported_versions", extension_data |-> <<1>>],
          [extension_type |-> "server_name", extension_data |-> l]>> :
          l \in NameLists}

NoPadding == [threw |-> FALSE, padding |-> -1]

CalculateECHPadding ==
  /\ padResult = NoPadding
  /\ padResult' = calculateECHPadding(padChlo, padEncodedSize, padMaxLen)
  /\ UNCHANGED <<padChlo, padEncodedSize, padMaxLen>>
  /\ UNCHANGED outsidePad

PadNext == CalculateECHPadding

\* the padding the policy asks for before rounding
PolicyPadding ==
  LET sni == getServerNameList(padChlo.extensions)
      sniLen == serverNameList(padChlo.extensions[sni])[1]
  IN IF sni = 0 THEN sizeAdd(padMaxLen, 9)
     ELSE IF sniLen < padMaxLen THEN padMaxLen - sniLen ELSE 0

\* C8: the padded length L = encodedSize + calculateECHPadding(...) satisfies
\* (L - 1) mod 32 = 31 in the unsigned size type, so L is a multiple of 32,
\* and the rounding step adds fewer than 32 bytes to the policy's padding.
C8_PaddedLengthMultipleOf32 ==
  (padResult # NoPadding /\ ~padResult.threw) =>
    LET L == sizeAdd(padEncodedSize, padResult.padding)
    IN /\ sizeSub(L, 1) % 32 = 31
       /\ L % 32 = 0
       /\ sizeSub(padResult.padding, PolicyPadding) < 32

\* a hello with a server name shorter than maxLen, padded by a rounding
\* step that had to add bytes, with the padded length wrapping around
C8_Witness ==
  /\ padResult # NoPadding /\ ~padResult.threw
  /\ getServerNameList(padChlo.extensions) # 0
  /\ PolicyPadding > 0
  /\ padResult.padding > PolicyPadding
  /\ padEncodedSize + padResult.padding >= SizeMod

(***************************************************************************)
(* fizz::ech: acceptance confirmation (makeDummyServerHello, makeDummyHRR,  *)
(* calculateAcceptConfirmation, setAcceptConfirmation, checkECHAccepted).   *)
(* The key scheduler is any function from (label, transcript) to a secret:  *)
(* its answer is chosen when a transcript is first asked for and is the     *)
(* same ever after.  The transcript before the dummy message is fixed.      *)
(***************************************************************************)
kEchAcceptConfirmationSize == 8
RandomSize == 32
ShortSecretLen == 4
LongSecretLen == 32
MaxByte == 2
MaxHrrExts == 2

Bytes == 0..MaxByte
Fill(n, a, b) == [i \in 1..n |-> IF i % 2 = 1 THEN a ELSE b]
FillPairs == {<<0, 0>>, <<1, 1>>, <<1, 2>>}
Take(s, n) == SubSeq(s, 1, n)

IsECH(ext) == ext.extension_type = "encrypted_client_hello"

\* memset(random.data() + (random.size() - 8), 0, 8)
zeroConfirmation(random) ==
  [i \in 1..Len(random) |->
     IF i > Len(random) - kEchAcceptConfirmationSize THEN 0 ELSE random[i]]

makeDummyServerHello(shlo) ==
  [shlo EXCEPT !.random = zeroConfirmation(shlo.random)]

\* every encrypted_client_hello extension is replaced by one of 8 zero bytes
makeDummyHRR(hrr) ==
  [hrr EXCEPT !.extensions =
     [i \in 1..Len(hrr.extensions) |->
        IF IsECH(hrr.extensions[i])
        THEN [extension_type |-> "encrypted_client_hello",
              extension_data |-> Fill(kEchAcceptConfirmationSize, 0, 0)]
        ELSE hrr.extensions[i]]]

\* what calculateAcceptConfirmation hands to the scheduler: the label and the
\* transcript with the encoded dummy message appended
transcriptOf(msg) ==
  IF msg.form = "ServerHello"
  THEN [label |-> "ECHAcceptConfirmation", message |-> makeDummyServerHello(msg)]
  ELSE [label |-> "HRRECHAcceptConfirmation", message |-> makeDummyHRR(msg)]

\* KeyScheduler::getSecret
getSecret(oracle, key) ==
  IF key \in DOMAIN oracle THEN {oracle[key]}
  ELSE {Fill(n, p[1], p[2]) :
          n \in {ShortSecretLen, kEchAcceptConfirmationSize, LongSecretLen},
          p \in FillPairs}

Remember(oracle, key, secret) ==
  [k \in DOMAIN oracle \cup {key} |-> IF k = key THEN secret ELSE oracle[k]]

\* calculateAcceptConfirmation, given the scheduler's answer: only the
\* HelloRetryRequest overload checks the secret's size
calculateAcceptConfirmation(msg, secret) ==
  [threw |-> msg.form = "HelloRetryRequest"
               /\ Len(secret) < kEchAcceptConfirmationSize,
   secret |-> secret]

\* the 8 bytes memcpy or memcmp reads at acceptConfirmation.data(): past the
\* end of a shorter vector the read is out of bounds and yields any bytes
read8(secret) ==
  IF Len(secret) >= kEchAcceptConfirmationSize
  THEN {Take(secret, kEchAcceptConfirmationSize)}
  ELSE {secret \o Fill(kEchAcceptConfirmationSize - Len(secret), p[1], p[2]) :
          p \in FillPairs}

\* hrr.extensions.push_back(encodeExtension(ECHHelloRetryRequest()))
withECHExtension(hrr) ==
  [hrr EXCEPT !.extensions =
     Append(hrr.extensions,
            [extension_type |-> "encrypted_client_hello",
             extension_data |-> Fill(kEchAcceptConfirmationSize, 0, 0)])]

\* the message setAcceptConfirmation computes the confirmation of
setTarget(msg) ==
  IF msg.form = "ServerHello" THEN msg ELSE withECHExtension(msg)

\* setAcceptConfirmation, given the scheduler's answer: its outcomes
setAcceptConfirmation(msg, secret) ==
  LET target == setTarget(msg)
      conf == calculateAcceptConfirmation(target, secret)
  IN IF conf.threw THEN {[threw |-> TRUE, msg |-> target]}
     ELSE IF msg.form = "ServerHello"
     THEN {[threw |-> FALSE,
            msg |-> [msg EXCEPT !.random =
                       Take(msg.random,
                            Len(msg.random) - kEchAcceptConfirmationSize)
                       \o bytes]] : bytes \in read8(conf.secret)}
     ELSE {[threw |-> FALSE,
            msg |-> [target EXCEPT
                       !.extensions[Len(target.extensions)].extension_data =
                         bytes]] : bytes \in read8(conf.secret)}

\* getExtension<ECHHelloRetryRequest>: position of the first
\* encrypted_client_hello extension, 0 when there is none
getECHHelloRetryRequest(extensions) ==
  LET hits == {i \in 1..Len(extensions) : IsECH(extensions[i])}
  IN IF hits = {} THEN 0 ELSE Least(hits)

\* the 8 confirmation bytes of a message (of an HRR that has the extension)
confirmationOf(msg) ==
  IF msg.form = "ServerHello"
  THEN SubSeq(msg.random,
              Len(msg.random) - kEchAcceptConfirmationSize + 1,
              Len(msg.random))
  ELSE msg.extensions[getECHHelloRetryRequest(msg.extensions)].extension_data

\* checkECHAccepted, given the scheduler's answer: its outcomes
checkECHAccepted(msg, secret) ==
  LET conf == calculateAcceptConfirmation(msg, secret)
  IN IF conf.threw THEN {"throw"}
     ELSE IF msg.form = "HelloRetryRequest"
             /\ getECHHelloRetryRequest(msg.extensions) = 0
     THEN {"false"}
     ELSE {IF confirmationOf(msg) = bytes THEN "true" ELSE "false" :
             bytes \in read8(conf.secret)}

\* the dummy message of the claims: the message with exactly its 8
\* confirmation bytes zeroed (an HRR without the extension has none)
zeroedConfirmation(msg) ==
  IF msg.form = "ServerHello" THEN makeDummyServerHello(msg)
  ELSE LET e == getECHHelloRetryRequest(msg.extensions)
       IN IF e = 0 THEN msg
          ELSE [msg EXCEPT !.extensions[e].extension_data =
                  Fill(kEchAcceptConfirmationSize, 0, 0)]

claimTranscriptOf(msg) ==
  [label |-> transcriptOf(msg).label, message |-> zeroedConfirmation(msg)]

\* the messages tried
Confirmations == {Fill(kEchAcceptConfirmationSize, p[1], p[2]) : p \in FillPairs}
HrrExtensions ==
  {[extension_type |-> "key_share", extension_data |-> <<1>>]}
  \cup {[extension_type |-> "encrypted_client_hello", extension_data |-> c] :
          c \in Confirmations}
AccMessages ==
  {[form |-> "ServerHello",
    random |-> Fill(RandomSize - kEchAcceptConfirmationSize, a, a) \o c,
    extensions |-> <<[extension_type |-> "key_share", extension_data |-> <<1>>]>>] :
     a \in 0..1, c \in Confirmations}
  \cup {[form |-> "HelloRetryRequest", extensions |-> e] :
          e \in SeqsUpTo(HrrExtensions, MaxHrrExts)}

\* the server writes the confirmation into the message
SetAcceptConfirmation ==
  /\ accPc = "start"
  /\ LET key == transcriptOf(setTarget(accMsg))
     IN \E secret \in getSecret(accOracle, key) :
          \E out \in setAcceptConfirmation(accMsg, secret) :
            /\ accOracle' = Remember(accOracle, key, secret)
            /\ accMsg' = out.msg
            /\ accPc' = IF out.threw THEN "threw" ELSE "set"
            /\ accWasSet' = ~out.threw
  /\ UNCHANGED <<accTampered, accResult>>
  /\ UNCHANGED outsideAcc

\* the client checks a message: one the server has set, one that was
\* changed afterwards, or any other.  The scheduler's answer for the dummy
\* that zeroes only the confirmation bytes is recorded too.
CheckECHAccepted ==
  /\ accPc \in {"start", "set", "tampered"}
  /\ LET key == transcriptOf(accMsg)
         claimKey == claimTranscriptOf(accMsg)
     IN \E secret \in getSecret(accOracle, key) :
          \E other \in getSecret(Remember(accOracle, key, secret), claimKey) :
            \E res \in checkECHAccepted(accMsg, secret) :
              /\ accOracle' = Remember(Remember(accOracle, key, secret),
                                       claimKey, other)
              /\ accResult' = res
  /\ accPc' = "checked"
  /\ UNCHANGED <<accMsg, accWasSet, accTampered>>
  /\ UNCHANGED outsideAcc

\* one of the 8 confirmation bytes of an accepted message is changed
TamperConfirmationByte ==
  /\ accPc = "checked" /\ accResult = "true" /\ ~accTampered
  /\ \E i \in 1..kEchAcceptConfirmationSize :
       \E v \in Bytes \ {confirmationOf(accMsg)[i]} :
         accMsg' =
           IF accMsg.form = "ServerHello"
           THEN [accMsg EXCEPT
                   !.random[Len(accMsg.random)
                              - kEchAcceptConfirmationSize + i] = v]
           ELSE [accMsg EXCEPT
                   !.extensions[getECHHelloRetryRequest(accMsg.extensions)]
                      .extension_data[i] = v]
  /\ accPc' = "tampered"
  /\ accTampered' = TRUE
  /\ UNCHANGED <<accOracle, accWasSet, accResult>>
  /\ UNCHANGED outsideAcc

AccNext == SetAcceptConfirmation \/ CheckECHAccepted \/ TamperConfirmationByte

\* C9: in both forms, setAcceptConfirmation on a message followed by
\* checkECHAccepted on the resulting message, with the same transcript and
\* key scheduler, returns true.
C9_SetThenCheckAccepts ==
  (accPc = "checked" /\ accWasSet /\ ~accTampered) => accResult = "true"

\* C10: checkECHAccepted returns true exactly when the 8 confirmation bytes
\* of the message equal the first 8 bytes of the secret derived over the
\* transcript extended with the message whose confirmation bytes are zeroed;
\* after one confirmation byte of an accepted message is changed it returns
\* false; an HRR without the ECH extension is reported as not accepted.
C10_AcceptedIffConfirmationMatches ==
  accPc = "checked" =>
    LET secret == accOracle[claimTranscriptOf(accMsg)]
        hasConfirmation ==
          accMsg.form = "ServerHello"
          \/ getECHHelloRetryRequest(accMsg.extensions) # 0
    IN /\ accResult = "true" <=>
            /\ hasConfirmation
            /\ Len(secret) >= kEchAcceptConfirmationSize
            /\ confirmationOf(accMsg) = Take(secret, kEchAcceptConfirmationSize)
       /\ accTampered => accResult = "false"
       /\ ~hasConfirmation => accResult = "false"

\* C12: whenever the secret derived for the confirmation is shorter than 8
\* bytes, setAcceptConfirmation and checkECHAccepted raise a runtime error,
\* for a ServerHello as well as for a HelloRetryRequest.
C12_ShortSecretRaises ==
  (accPc \in {"set", "threw", "checked"}
   /\ Len(accOracle[transcriptOf(accMsg)]) < kEchAcceptConfirmationSize)
    => \/ accPc = "threw"
       \/ accPc = "checked" /\ accResult = "throw"

(***************************************************************************)
(* fizz::ech: encryptClientHello and decryptECHWithContext.  Encodings are  *)
(* sequences of numbers, vectors carry a length prefix; the HPKE context is *)
(* an ideal AEAD: a ciphertext is opaque and opens, under the associated    *)
(* data it was sealed with, to the plaintext that was sealed.               *)
(***************************************************************************)
MaxInnerExts == 3
MaxOuterExts == 2
EchMaxLen == 4
CipherOverhead == 16
CiphertextByte == 255

TypeCode(t) ==
  CASE t = "server_name" -> 0
    [] t = "pre_shared_key" -> 41
    [] t = "supported_versions" -> 43
    [] t = "ech_outer_extensions" -> 64768
    [] t = "encrypted_client_hello" -> 65037
ExtTypes == {"server_name", "pre_shared_key", "supported_versions",
             "ech_outer_extensions", "encrypted_client_hello"}
TypeOfCode(c) == CHOOSE t \in ExtTypes : TypeCode(t) = c

\* a vector on the wire: its length, then its content
prefixed(x) == <<Len(x)>> \o x
Zeros(n) == [i \in 1..n |-> 0]

RECURSIVE encodeExtensions(_)
encodeExtensions(exts) ==
  IF exts = <<>> THEN <<>>
  ELSE <<TypeCode(Head(exts).extension_type)>>
       \o prefixed(Head(exts).extension_data)
       \o encodeExtensions(Tail(exts))

RECURSIVE decodeExtensions(_)
decodeExtensions(bytes) ==
  IF bytes = <<>> THEN <<>>
  ELSE <<[extension_type |-> TypeOfCode(bytes[1]),
          extension_data |-> SubSeq(bytes, 3, 2 + bytes[2])]>>
       \o decodeExtensions(SubSeq(bytes, 3 + bytes[2], Len(bytes)))

\* encode(ClientHello): originalEncoding is not part of the encoding
encode(chlo) ==
  <<chlo.legacy_version, chlo.random>>
  \o prefixed(chlo.legacy_session_id)
  \o prefixed(chlo.cipher_suites)
  \o prefixed(chlo.legacy_compression_methods)
  \o prefixed(encodeExtensions(chlo.extensions))

\* encodeHandshake: the handshake type and length, then the message
encodeHandshake(chlo) == <<1>> \o prefixed(encode(chlo))

\* decode<ClientHello> at a cursor: the hello read and what the cursor has
\* not consumed; the extensions block is read unless the cursor is at the end
decodeClientHello(bytes) ==
  LET p1 == 3
      sid == SubSeq(bytes, p1 + 1, p1 + bytes[p1])
      p2 == p1 + bytes[p1] + 1
      cs == SubSeq(bytes, p2 + 1, p2 + bytes[p2])
      p3 == p2 + bytes[p2] + 1
      cm == SubSeq(bytes, p3 + 1, p3 + bytes[p3])
      p4 == p3 + bytes[p3] + 1
      atEnd == p4 > Len(bytes)
  IN [chlo |-> [legacy_version |-> bytes[1], random |-> bytes[2],
                legacy_session_id |-> sid, cipher_suites |-> cs,
                legacy_compression_methods |-> cm,
                extensions |-> IF atEnd THEN <<>>
                               ELSE decodeExtensions(
                                      SubSeq(bytes, p4 + 1, p4 + bytes[p4])),
                originalEncoding |-> <<>>],
      rest |-> IF atEnd THEN <<>>
               ELSE SubSeq(bytes, p4 + bytes[p4] + 1, Len(bytes))]

\* encodeExtension(OuterECHClientHello) and getExtension<OuterECHClientHello>
encodeECH(ech) ==
  [extension_type |-> "encrypted_client_hello",
   extension_data |-> <<ech.cipher_suite.kdf_id, ech.cipher_suite.aead_id,
                        ech.config_id>>
                      \o prefixed(ech.enc) \o prefixed(ech.payload)]
decodeECH(data) ==
  [cipher_suite |-> [kdf_id |-> data[1], aead_id |-> data[2]],
   config_id |-> data[3],
   enc |-> SubSeq(data, 5, 4 + data[4]),
   payload |-> SubSeq(data, 6 + data[4], 5 + data[4] + data[5 + data[4]])]

\* encodeExtension(OuterExtensions) and getExtension<OuterExtensions>
encodeOuterExtensions(types) ==
  [extension_type |-> "ech_outer_extensions",
   extension_data |-> prefixed([i \in 1..Len(types) |-> TypeCode(types[i])])]
decodeOuterExtensions(data) ==
  [i \in 1..data[1] |-> TypeOfCode(data[i + 1])]

\* encodeExtension(ClientPresharedKey) of the grease PSK
GreasePskExtension ==
  [extension_type |-> "pre_shared_key", extension_data |-> <<9, 9>>]

firstOfType(exts, t) ==
  LET hits == {i \in 1..Len(exts) : exts[i].extension_type = t}
  IN IF hits = {} THEN 0 ELSE Least(hits)

RemoveAt(s, i) == SubSeq(s, 1, i - 1) \o SubSeq(s, i + 1, Len(s))

\* the first loop of generateAndReplaceOuterExtensions: the types of the
\* inner extensions named in outerExtensionTypes, in inner order
referencedTypes(chloInnerExt, outerExtensionTypes) ==
  LET named(ext) == stdFound(outerExtensionTypes, ext.extension_type)
      sel == SelectSeq(chloInnerExt, named)
  IN [i \in 1..Len(sel) |-> sel[i].extension_type]

\* the second loop: the first hit becomes the ech_outer_extensions
\* extension, every later hit is erased
RECURSIVE replaceOuterLoop(_, _, _)
replaceOuterLoop(exts, extTypes, k) ==
  IF k > Len(extTypes) THEN exts
  ELSE LET it == firstOfType(exts, extTypes[k])
       IN replaceOuterLoop(
            IF k = 1 THEN [exts EXCEPT ![it] = encodeOuterExtensions(extTypes)]
            ELSE RemoveAt(exts, it),
            extTypes, k + 1)

\* every hit replaced by nothing but the marker: later hits stay in place
generateAndReplaceOuterExtensionsNoErase(chloInnerExt, outerExtensionTypes) ==
  LET extTypes == referencedTypes(chloInnerExt, outerExtensionTypes)
  IN IF Len(extTypes) = 0 THEN chloInnerExt
     ELSE [chloInnerExt EXCEPT ![firstOfType(chloInnerExt, extTypes[1])] =
             encodeOuterExtensions(extTypes)]

generateAndReplaceOuterExtensions(chloInnerExt, outerExtensionTypes) ==
  LET extTypes == referencedTypes(chloInnerExt, outerExtensionTypes)
  IN IF Len(extTypes) = 0 THEN chloInnerExt
     ELSE replaceOuterLoop(chloInnerExt, extTypes, 1)

\* HpkeContext::seal and HpkeContext::open
NothingSealed == [aad |-> <<>>, pt |-> <<>>, ct |-> <<>>]
seal(aad, pt) ==
  [aad |-> aad, pt |-> pt,
   ct |-> [i \in 1..(Len(pt) + CipherOverhead) |-> CiphertextByte]]
open(sealed, aad, ct) ==
  IF sealed # NothingSealed /\ ct = sealed.ct /\ aad = sealed.aad
  THEN [ok |-> TRUE, pt |-> sealed.pt]
  ELSE [ok |-> FALSE, pt |-> <<>>]

NoECHExtension ==
  [cipher_suite |-> [kdf_id |-> 0, aead_id |-> 0], config_id |-> 0,
   enc |-> <<>>, payload |-> <<>>]

\* encryptClientHello with encryptClientHelloImpl: the extension returned
\* and what the context sealed, unless calculateECHPadding threw
encryptClientHello(negotiatedECHConfig, clientHelloInner, clientHelloOuter, enc, greasePsk, outerExtensionTypes) ==
  LET echExtension0 == [cipher_suite |-> negotiatedECHConfig.cipherSuite,
                        config_id |-> negotiatedECHConfig.configId,
                        enc |-> enc, payload |-> <<>>]
      chloInnerCopy ==
        [clientHelloInner EXCEPT
           !.legacy_session_id = <<>>,
           !.extensions = generateAndReplaceOuterExtensions(
                            clientHelloInner.extensions, outerExtensionTypes)]
      encoded == encode(chloInnerCopy)
      padding == calculateECHPadding(clientHelloInner, Len(encoded) % SizeMod,
                                     negotiatedECHConfig.maxLen)
      encodedClientHelloInner == encoded \o Zeros(padding.padding)
      dummyPayloadSize ==
        sizeAdd(Len(encodedClientHelloInner) % SizeMod, CipherOverhead)
      echExtension1 == [echExtension0 EXCEPT !.payload = Zeros(dummyPayloadSize)]
      chloOuterForAAD ==
        [clientHelloOuter EXCEPT
           !.extensions = @ \o <<encodeECH(echExtension1)>>
                            \o IF greasePsk THEN <<GreasePskExtension>>
                               ELSE <<>>]
      sealed == seal(encode(chloOuterForAAD), encodedClientHelloInner)
  IN IF padding.threw
     THEN [threw |-> TRUE, echExtension |-> NoECHExtension,
           sealed |-> NothingSealed]
     ELSE [threw |-> FALSE,
           echExtension |-> [echExtension0 EXCEPT !.payload = sealed.ct],
           sealed |-> sealed]

\* makeClientHelloOuterForAad: the payload of the first
\* encrypted_client_hello extension zeroed, the hello encoded
makeClientHelloOuterForAad(clientHelloOuter) ==
  LET it == firstOfType(clientHelloOuter.extensions, "encrypted_client_hello")
      parsed == decodeECH(clientHelloOuter.extensions[it].extension_data)
      zeroed == [parsed EXCEPT !.payload = Zeros(Len(parsed.payload))]
  IN encode([clientHelloOuter EXCEPT !.extensions[it] = encodeECH(zeroed)])

OuterExtensionsError == [threw |-> TRUE, extensions |-> <<>>, seenTypes |-> {}]

\* the scan without the duplicate check on the referenced types
RECURSIVE substituteTypesNoDupeCheck(_, _, _, _, _)
substituteTypesNoDupeCheck(types, k, outerIt, seenTypes, chloOuterExt) ==
  IF k > Len(types)
  THEN [threw |-> FALSE, extensions |-> <<>>, seenTypes |-> seenTypes]
  ELSE LET extType == types[k]
           hits == {j \in outerIt..Len(chloOuterExt) :
                      chloOuterExt[j].extension_type = extType}
       IN IF extType = "encrypted_client_hello" THEN OuterExtensionsError
          ELSE IF hits = {} THEN OuterExtensionsError
          ELSE LET rest == substituteTypesNoDupeCheck(
                             types, k + 1, Least(hits) + 1,
                             seenTypes \cup {extType}, chloOuterExt)
               IN IF rest.threw THEN rest
                  ELSE [rest EXCEPT !.extensions =
                          <<chloOuterExt[Least(hits)]>> \o @]

\* the inner loop of substituteOuterExtensions over outerExtensions.types:
\* one forward scan of the outer hello's extensions
RECURSIVE substituteTypes(_, _, _, _, _)
substituteTypes(types, k, outerIt, seenTypes, chloOuterExt) ==
  IF k > Len(types)
  THEN [threw |-> FALSE, extensions |-> <<>>, seenTypes |-> seenTypes]
  ELSE LET extType == types[k]
           hits == {j \in outerIt..Len(chloOuterExt) :
                      chloOuterExt[j].extension_type = extType}
       IN IF extType \in seenTypes THEN OuterExtensionsError
          ELSE IF extType = "encrypted_client_hello" THEN OuterExtensionsError
          ELSE IF hits = {} THEN OuterExtensionsError
          ELSE LET rest == substituteTypes(types, k + 1, Least(hits) + 1,
                                           seenTypes \cup {extType},
                                           chloOuterExt)
               IN IF rest.threw THEN rest
                  ELSE [rest EXCEPT !.extensions =
                          <<chloOuterExt[Least(hits)]>> \o @]

\* getExtension<OuterExtensions> throws when the list's length prefix runs
\* past the extension's data
malformedOuterExtensions(data) == data = <<>> \/ data[1] > Len(data) - 1

RECURSIVE substituteLoop(_, _, _, _)
substituteLoop(chloInnerExt, i, seenTypes, chloOuterExt) ==
  IF i > Len(chloInnerExt)
  THEN [threw |-> FALSE, extensions |-> <<>>, seenTypes |-> seenTypes]
  ELSE LET ext == chloInnerExt[i]
           seen1 == seenTypes \cup {ext.extension_type}
           part == IF ext.extension_type # "ech_outer_extensions"
                   THEN [threw |-> FALSE, extensions |-> <<ext>>,
                         seenTypes |-> seen1]
                   ELSE IF malformedOuterExtensions(ext.extension_data)
                   THEN OuterExtensionsError
                   ELSE substituteTypes(
                          decodeOuterExtensions(ext.extension_data), 1, 1,
                          seen1, chloOuterExt)
       IN IF ext.extension_type \in seenTypes THEN OuterExtensionsError
          ELSE IF part.threw THEN part
          ELSE LET rest == substituteLoop(chloInnerExt, i + 1, part.seenTypes,
                                          chloOuterExt)
               IN IF rest.threw THEN rest
                  ELSE [rest EXCEPT !.extensions = part.extensions \o @]

substituteOuterExtensions(chloInnerExt, chloOuterExt) ==
  substituteLoop(chloInnerExt, 1, {}, chloOuterExt)

DecryptThrew == [threw |-> TRUE, chlo |-> [extensions |-> <<>>]]

\* decryptECHWithContext with extractEncodedClientHelloInner
decryptECHWithContext(clientHelloOuter, encryptedCh, context) ==
  LET aadCH == makeClientHelloOuterForAad(clientHelloOuter)
      opened == open(context, aadCH, encryptedCh)
      decoded == decodeClientHello(opened.pt)
      expanded == substituteOuterExtensions(decoded.chlo.extensions,
                                            clientHelloOuter.extensions)
      decodedChlo ==
        [decoded.chlo EXCEPT
           !.legacy_session_id = clientHelloOuter.legacy_session_id,
           !.extensions = expanded.extensions]
  IN IF ~opened.ok THEN DecryptThrew
     ELSE IF \E i \in 1..Len(decoded.rest) : decoded.rest[i] # 0
     THEN DecryptThrew
     ELSE IF expanded.threw THEN DecryptThrew
     ELSE [threw |-> FALSE,
           chlo |-> [decodedChlo EXCEPT
                       !.originalEncoding = encodeHandshake(decodedChlo)]]

\* the inputs tried
NegotiatedForECH ==
  [configId |-> 7, maxLen |-> EchMaxLen,
   cipherSuite |-> [kdf_id |-> 1, aead_id |-> 1]]
SetupEnc == <<8, 8>>
InnerTypes == {"server_name", "supported_versions", "pre_shared_key",
               "encrypted_client_hello"}
InnerExtension(t) ==
  [extension_type |-> t,
   extension_data |-> CASE t = "server_name" -> <<2>>
                        [] t = "supported_versions" -> <<3>>
                        [] t = "pre_shared_key" -> <<5, 5>>
                        [] t = "encrypted_client_hello" -> <<1>>]
OuterExtensionChoices ==
  {InnerExtension("supported_versions"),
   [extension_type |-> "supported_versions", extension_data |-> <<4>>],
   InnerExtension("server_name"),
   encodeECH([NoECHExtension EXCEPT !.payload = <<6>>])}
OuterTypeLists ==
  {<<>>, <<"supported_versions">>, <<"pre_shared_key", "supported_versions">>,
   <<"server_name", "supported_versions">>, <<"encrypted_client_hello">>}
\* extension lists of pairwise distinct types, and one type twice
InnerExtensionLists ==
  {e \in SeqsUpTo({InnerExtension(t) : t \in InnerTypes}, MaxInnerExts) :
     \/ \A i, j \in 1..Len(e) : e[i] = e[j] => i = j
     \/ Len(e) = 2 /\ e[1] = e[2]}
InnerHellos ==
  {[legacy_version |-> 771, random |-> 11, legacy_session_id |-> <<7>>,
    cipher_suites |-> <<4865>>, legacy_compression_methods |-> <<0>>,
    extensions |-> e, originalEncoding |-> <<>>] :
     e \in InnerExtensionLists}
OuterHellos ==
  {[legacy_version |-> 771, random |-> 22, legacy_session_id |-> <<8>>,
    cipher_suites |-> <<4865, 4866>>, legacy_compression_methods |-> <<0>>,
    extensions |-> e, originalEncoding |-> <<>>] :
     e \in SeqsUpTo(OuterExtensionChoices, MaxOuterExts)}

\* the hello that is sent: the outer hello, the ECH extension returned by
\* encryptClientHello, then the grease PSK when one was passed
SentHello ==
  [echOuter EXCEPT
     !.extensions = @ \o <<encodeECH(echExtension)>>
                      \o IF echGreasePsk THEN <<GreasePskExtension>> ELSE <<>>]

EncryptClientHello ==
  /\ echPc = "start"
  /\ LET res == encryptClientHello(NegotiatedForECH, echInner, echOuter,
                                   SetupEnc, echGreasePsk, echOuterTypes)
     IN /\ echExtension' = res.echExtension
        /\ hpkeSealed' = res.sealed
        /\ echPc' = IF res.threw THEN "encryptThrew" ELSE "encrypted"
  /\ UNCHANGED <<echInner, echOuter, echOuterTypes, echGreasePsk, echDecrypted>>
  /\ UNCHANGED outsideEch

DecryptECHWithContext ==
  /\ echPc = "encrypted"
  /\ echDecrypted' = decryptECHWithContext(SentHello, echExtension.payload,
                                           hpkeSealed)
  /\ echPc' = "decrypted"
  /\ UNCHANGED <<echInner, echOuter, echOuterTypes, echGreasePsk,
                 echExtension, hpkeSealed>>
  /\ UNCHANGED outsideEch

EchNext == EncryptClientHello \/ DecryptECHWithContext

\* the inner hello with the outer hello's legacy_session_id
InnerWithOuterSessionId ==
  [echInner EXCEPT !.legacy_session_id = echOuter.legacy_session_id]

\* equal in every field that is part of the encoding
SameHello(a, b) ==
  /\ a.legacy_version = b.legacy_version
  /\ a.random = b.random
  /\ a.legacy_session_id = b.legacy_session_id
  /\ a.cipher_suites = b.cipher_suites
  /\ a.legacy_compression_methods = b.legacy_compression_methods
  /\ a.extensions = b.extensions

\* C1 as stated: for any inner hello, outer hello, config and list of
\* outer-extension types, decryptECHWithContext on the sent hello succeeds
\* and returns the inner hello, extension list included, with the outer
\* hello's legacy_session_id.
C1_RoundTripAnyInput ==
  echPc = "decrypted" =>
    /\ ~echDecrypted.threw
    /\ SameHello(echDecrypted.chlo, InnerWithOuterSessionId)

\* the types referenced through ech_outer_extensions, and where the
\* extensions that carry them stand in the inner hello
ReferencedSet ==
  {echInner.extensions[i].extension_type : i \in 1..Len(echInner.extensions)}
  \cap {echOuterTypes[i] : i \in 1..Len(echOuterTypes)}
ReferencedAt ==
  {i \in 1..Len(echInner.extensions) :
     echInner.extensions[i].extension_type \in ReferencedSet}
IsReferenced(ext) == ext.extension_type \in ReferencedSet

InnerTypesDistinct ==
  \A i, j \in 1..Len(echInner.extensions) :
    echInner.extensions[i].extension_type = echInner.extensions[j].extension_type
      => i = j
NoECHInOuter == firstOfType(echOuter.extensions, "encrypted_client_hello") = 0
NoMarkerInInner == firstOfType(echInner.extensions, "ech_outer_extensions") = 0
ReferencedContiguous ==
  \A i, j \in ReferencedAt : \A k \in i..j : k \in ReferencedAt
ReferencedSameInSent ==
  SelectSeq(SentHello.extensions, IsReferenced)
    = SelectSeq(echInner.extensions, IsReferenced)

RoundTripPreconditions ==
  /\ InnerTypesDistinct /\ NoMarkerInInner /\ NoECHInOuter
  /\ ReferencedContiguous /\ ReferencedSameInSent

\* C1, amended: when the inner hello's extension types are pairwise
\* distinct with no ech_outer_extensions among them, the outer hello has no
\* encrypted_client_hello extension, the referenced inner extensions are
\* adjacent, and the extensions of the sent hello that have a referenced
\* type are exactly those extensions, same content, same order, then
\* decryptECHWithContext succeeds and returns the inner hello with the outer
\* hello's legacy_session_id and originalEncoding set to the handshake
\* encoding of the hello returned.
C1_RoundTripWhenReferencesMatch ==
  (echPc = "decrypted" /\ RoundTripPreconditions) =>
    /\ ~echDecrypted.threw
    /\ echDecrypted.chlo =
         [InnerWithOuterSessionId EXCEPT
            !.originalEncoding = encodeHandshake(InnerWithOuterSessionId)]

\* a round trip that compressed two extensions into one reference list,
\* next to an extension that stayed, with a grease PSK in the sent hello
C1_Witness ==
  /\ echPc = "decrypted" /\ RoundTripPreconditions
  /\ Cardinality(ReferencedAt) = 2
  /\ Len(echInner.extensions) = 3
  /\ echGreasePsk
  /\ ~echDecrypted.threw
  /\ echDecrypted.chlo.legacy_session_id # echInner.legacy_session_id

\* the extensions of the encoded inner hello, as the context sealed them,
\* and the reference list they carry
EncodedInnerExtensions == decodeClientHello(hpkeSealed.pt).chlo.extensions
EncodedReferences ==
  LET marker == firstOfType(EncodedInnerExtensions, "ech_outer_extensions")
  IN IF marker = 0 THEN <<>>
     ELSE decodeOuterExtensions(EncodedInnerExtensions[marker].extension_data)
IsNamedOuter(ext) ==
  \E i \in 1..Len(echOuterTypes) : echOuterTypes[i] = ext.extension_type
TypesOf(exts) == [i \in 1..Len(exts) |-> exts[i].extension_type]

\* the three parts of the claim about the rewritten inner hello
ReferencesOnce ==
  \A i, j \in 1..Len(EncodedReferences) :
    EncodedReferences[i] = EncodedReferences[j] => i = j
ReferencesInInnerOrder ==
  /\ {EncodedReferences[i] : i \in 1..Len(EncodedReferences)}
       = {e.extension_type : e \in {echInner.extensions[i] :
                                      i \in ReferencedAt}}
  /\ \A i, j \in 1..Len(EncodedReferences) :
       i < j => firstOfType(echInner.extensions, EncodedReferences[i])
                  <= firstOfType(echInner.extensions, EncodedReferences[j])
ReferencedRemoved ==
  /\ \A i \in 1..Len(EncodedInnerExtensions) :
       ~IsNamedOuter(EncodedInnerExtensions[i])
  /\ \A i \in 1..Len(echInner.extensions) :
       IsNamedOuter(echInner.extensions[i]) =>
         \E k \in 1..Len(EncodedReferences) :
           EncodedReferences[k] = echInner.extensions[i].extension_type

\* C13 as stated: the reference list names each referenced type exactly
\* once, in the order of the inner hello, and every inner extension whose
\* type is in outerExtensionTypes is gone from the encoded inner hello and
\* stands only as its reference.
C13_ReferencesOnceInOrder ==
  echPc \in {"encrypted", "decrypted"} =>
    ReferencesOnce /\ ReferencesInInnerOrder /\ ReferencedRemoved

\* C13, amended: the same, for an inner hello whose extension types are
\* pairwise distinct.
C13_ReferencesOnceWhenTypesDistinct ==
  (echPc \in {"encrypted", "decrypted"} /\ InnerTypesDistinct) =>
    ReferencesOnce /\ ReferencesInInnerOrder /\ ReferencedRemoved

\* two of three inner extensions were rewritten into one reference list
C13_Witness ==
  /\ echPc = "encrypted" /\ InnerTypesDistinct
  /\ Len(echInner.extensions) = 3
  /\ Len(EncodedReferences) = 2
  /\ Len(EncodedInnerExtensions) = 2

(***************************************************************************)
(* fizz::ech::substituteOuterExtensions on any decoded inner extension list *)
(***************************************************************************)
MaxSubInner == 2
MaxSubOuter == 2
MaxRefs == 2

SubPlainTypes == {"supported_versions", "server_name"}
SubRefTypes == {"supported_versions", "server_name", "encrypted_client_hello",
                "ech_outer_extensions"}
SubPlain(t) == [extension_type |-> t, extension_data |-> <<1>>]
SubMarkers == {encodeOuterExtensions(ts) : ts \in SeqsUpTo(SubRefTypes, MaxRefs)}
InsertAt(s, i, x) == SubSeq(s, 1, i - 1) \o <<x>> \o SubSeq(s, i, Len(s))
\* plain extensions, with at most one ech_outer_extensions among them, and
\* two ech_outer_extensions in a row
SubInnerLists ==
  LET plain == SeqsUpTo({SubPlain(t) : t \in SubPlainTypes}, MaxSubInner)
  IN plain
     \cup UNION {{InsertAt(e, i, mk) : i \in 1..(Len(e) + 1),
                                        mk \in SubMarkers} : e \in plain}
     \cup {<<mk, mk>> : mk \in SubMarkers}
SubOuterLists ==
  SeqsUpTo({[extension_type |-> t, extension_data |-> <<2>>] :
              t \in {"supported_versions", "server_name", "pre_shared_key",
                     "ech_outer_extensions"}},
           MaxSubOuter)

SubstituteOuterExtensions ==
  /\ ~subResult.done
  /\ LET res == substituteOuterExtensions(subInner, subOuter)
     IN subResult' = [done |-> TRUE, threw |-> res.threw,
                      extensions |-> res.extensions]
  /\ UNCHANGED <<subInner, subOuter>>
  /\ UNCHANGED outsideSub

SubNext == SubstituteOuterExtensions

\* the types the expanded list would carry, in order: the inner hello's own
\* extensions, and for each ech_outer_extensions the types it references
RECURSIVE ExpandedTypes(_)
ExpandedTypes(exts) ==
  IF exts = <<>> THEN <<>>
  ELSE (IF Head(exts).extension_type = "ech_outer_extensions"
        THEN decodeOuterExtensions(Head(exts).extension_data)
        ELSE <<Head(exts).extension_type>>)
       \o ExpandedTypes(Tail(exts))
RECURSIVE ReferencedTypesOf(_)
ReferencedTypesOf(exts) ==
  IF exts = <<>> THEN <<>>
  ELSE (IF Head(exts).extension_type = "ech_outer_extensions"
        THEN decodeOuterExtensions(Head(exts).extension_data)
        ELSE <<>>)
       \o ReferencedTypesOf(Tail(exts))
SubDuplicate ==
  LET ts == ExpandedTypes(subInner)
  IN \E i, j \in 1..Len(ts) : i # j /\ ts[i] = ts[j]
SubReferencesECH ==
  LET ts == ReferencedTypesOf(subInner)
  IN \E i \in 1..Len(ts) : ts[i] = "encrypted_client_hello"
SubReferenceMissing ==
  LET ts == ReferencedTypesOf(subInner)
  IN \E i \in 1..Len(ts) : firstOfType(subOuter, ts[i]) = 0

\* C11: substituteOuterExtensions raises OuterExtensionsError, and returns no
\* list, whenever a type would occur twice in the expanded list, a reference
\* names encrypted_client_hello, or a referenced type has no extension in
\* the outer hello.
C11_SubstituteRaises ==
  (subResult.done /\ (SubDuplicate \/ SubReferencesECH \/ SubReferenceMissing))
    => (subResult.threw /\ subResult.extensions = <<>>)

\* a reference list that names the same type twice, both present in the
\* outer hello, and nothing else wrong: only the duplicate check raises
C11_Witness ==
  /\ subResult.done /\ subResult.threw
  /\ SubDuplicate /\ ~SubReferencesECH /\ ~SubReferenceMissing
  /\ LET ts == ReferencedTypesOf(subInner)
     IN Len(ts) = 2 /\ ts[1] = ts[2]
  /\ Len(subInner) = 1

\* every type the scan passes to dupeCheck, in order: each inner extension's
\* own type, and after an ech_outer_extensions the types it references
RECURSIVE CheckedTypes(_)
CheckedTypes(exts) ==
  IF exts = <<>> THEN <<>>
  ELSE <<Head(exts).extension_type>>
       \o (IF Head(exts).extension_type = "ech_outer_extensions"
           THEN decodeOuterExtensions(Head(exts).extension_data)
           ELSE <<>>)
       \o CheckedTypes(Tail(exts))
SubCheckedTwice ==
  LET ts == CheckedTypes(subInner)
  IN \E i, j \in 1..Len(ts) : i # j /\ ts[i] = ts[j]
\* the ways to find the referenced types in the outer list, each after the
\* one before
SubMatches ==
  LET ts == ReferencedTypesOf(subInner)
  IN {f \in [1..Len(ts) -> 1..Len(subOuter)] :
        /\ \A k \in 1..Len(ts) : subOuter[f[k]].extension_type = ts[k]
        /\ \A k, l \in 1..Len(ts) : k < l => f[k] < f[l]}
SubMarkerAt == firstOfType(subInner, "ech_outer_extensions")
\* the inner list with its ech_outer_extensions entry replaced in place by
\* the outer extensions that a match selects
SubExpansion(f) ==
  IF SubMarkerAt = 0 THEN subInner
  ELSE SubSeq(subInner, 1, SubMarkerAt - 1)
       \o [k \in 1..Len(ReferencedTypesOf(subInner)) |-> subOuter[f[k]]]
       \o SubSeq(subInner, SubMarkerAt + 1, Len(subInner))
SubResultTypes ==
  [i \in 1..Len(subResult.extensions) |-> subResult.extensions[i].extension_type]

\* C26: substituteOuterExtensions succeeds exactly when no type is checked
\* twice, no reference names encrypted_client_hello, and the referenced
\* types occur in the outer list as a subsequence in reference order; on
\* success the result is the inner list with the ech_outer_extensions entry
\* replaced in place by the referenced outer extensions in reference order,
\* and it contains no ech_outer_extensions entry and no repeated type.
C26_SubstituteIsForwardScan ==
  subResult.done =>
    /\ ~subResult.threw
         <=> (~SubCheckedTwice /\ ~SubReferencesECH /\ SubMatches # {})
    /\ ~subResult.threw =>
         /\ \E f \in SubMatches : subResult.extensions = SubExpansion(f)
         /\ \A i \in 1..Len(SubResultTypes) :
              SubResultTypes[i] # "ech_outer_extensions"
         /\ \A i, j \in 1..Len(SubResultTypes) :
              SubResultTypes[i] = SubResultTypes[j] => i = j

\* two references expanded in place from an outer hello that has both in
\* reference order
C26_Witness ==
  /\ subResult.done /\ ~subResult.threw
  /\ Len(ReferencedTypesOf(subInner)) = 2
  /\ Len(subResult.extensions) = 2

\* both referenced types are in the outer hello, the second only before the
\* first: the scan does not go back
C26_WitnessOutOfOrder ==
  /\ subResult.done /\ subResult.threw
  /\ ~SubCheckedTwice /\ ~SubReferencesECH /\ ~SubReferenceMissing

(***************************************************************************)
(* gen-member-reflection: main and generate.  The command line is what     *)
(* boost::program_options makes of it: whether it parses at all, and which *)
(* options it carries.  The environment decides whether the output path    *)
(* opens for writing and whether the debug-info parser raises.             *)
(***************************************************************************)
\* values tried for --num_threads: a negative one, zero, and up to
MaxThreadsArg == 2
ThreadCounts == {-1} \cup (0..MaxThreadsArg)
DefaultNumThreads == 24

GenCommandLines ==
  [malformed : BOOLEAN, help : BOOLEAN, has_num_threads : BOOLEAN,
   num_threads : ThreadCounts, source_file : BOOLEAN,
   output_file : BOOLEAN, install_dir : BOOLEAN]
GenEnvironments ==
  [actually_run : BOOLEAN, opens : BOOLEAN, parserThrows : BOOLEAN]
NoArgs ==
  [malformed |-> FALSE, help |-> FALSE, has_num_threads |-> FALSE,
   num_threads |-> 0, source_file |-> FALSE, output_file |-> FALSE,
   install_dir |-> FALSE]
NoEnv == [actually_run |-> FALSE, opens |-> FALSE, parserThrows |-> FALSE]

\* generate(source_executable, o): the header goes to the stream, then the
\* parser runs when the build enables it, then the trailer.  A stream that
\* did not open swallows every write; nothing inspects its state.
generate(env) ==
  LET threw == env.actually_run /\ env.parserThrows
  IN [threw  |-> threw,
      output |-> IF ~env.opens THEN "none"
                 ELSE IF threw THEN "partial" ELSE "complete"]

\* main(argc, argv)
main(args, env, numThreads) ==
  IF args.malformed THEN
    \* parse_command_line raised po::error
    [exit |-> 1, output |-> "none", NumThreads |-> numThreads]
  ELSE IF args.help THEN
    [exit |-> 1, output |-> "none", NumThreads |-> numThreads]
  ELSE IF args.has_num_threads /\ ~(args.num_threads > 0) THEN
    [exit |-> 1, output |-> "none", NumThreads |-> numThreads]
  ELSE
    LET n == IF args.has_num_threads THEN args.num_threads ELSE numThreads
    IN IF ~(args.source_file /\ args.output_file) THEN
         \* notify raised po::required_option
         [exit |-> 1, output |-> "none", NumThreads |-> n]
       ELSE
         LET g == generate(env)
         IN [exit |-> IF g.threw THEN 1 ELSE 0, output |-> g.output,
             NumThreads |-> n]

Main ==
  /\ genPc = "start"
  /\ LET res == main(genArgs, genEnv, genNumThreads)
     IN /\ genExit' = res.exit
        /\ genOutput' = res.output
        /\ genNumThreads' = res.NumThreads
  /\ genPc' = "done"
  /\ UNCHANGED <<genArgs, genEnv>>
  /\ UNCHANGED outsideGen

GenNext == Main

\* C14: the exit code is 0 exactly when generation succeeded and the output
\* file was written, and 1 in every other case: --help, an option-parse
\* error or missing required option, num_threads <= 0, a debug-parser
\* exception, an output file that cannot be opened for writing.
C14_ExitZeroIffOutputWritten ==
  genPc = "done" =>
    /\ genExit \in {0, 1}
    /\ genExit = 0 <=> genOutput = "complete"
    /\ (\/ genArgs.malformed \/ genArgs.help
        \/ genArgs.has_num_threads /\ genArgs.num_threads <= 0
        \/ ~genArgs.source_file \/ ~genArgs.output_file
        \/ genEnv.actually_run /\ genEnv.parserThrows
        \/ ~genEnv.opens) => genExit = 1

(***************************************************************************)
(* folly::Range: compare and operator==.  Elements are integers: the byte  *)
(* image (0..255) for character and byte element types, the value itself   *)
(* for int, and for double either a value or FloatNaN, which is unordered  *)
(* and unequal to everything, itself included.                             *)
(***************************************************************************)
MaxCmpLen == 2
FloatNaN == 7
ElementKinds == {"char", "byte", "int", "double"}
Elements(kind) ==
  IF kind \in {"char", "byte"} THEN {0, 1, 255}
  ELSE IF kind = "int" THEN {-1, 0, 1}
  ELSE {0, 1, FloatNaN}
CmpRanges(kind) == SeqsUpTo(Elements(kind), MaxCmpLen)

sign(x) == IF x < 0 THEN -1 ELSE IF x > 0 THEN 1 ELSE 0

\* the element type's operator< and operator==
lessValue(a, b) == a # FloatNaN /\ b # FloatNaN /\ a < b
eqValue(a, b) == a # FloatNaN /\ b # FloatNaN /\ a = b

RECURSIVE memcmp(_, _, _, _, _)
\* std::memcmp and std::char_traits<char>::compare over the first c bytes
\* from the k-th on: the order of the first bytes that differ, as a value of
\* magnitude m (only the sign is specified)
memcmp(a, b, c, k, m) ==
  IF k = c THEN 0
  ELSE IF At(a, k) < At(b, k) THEN -m
  ELSE IF At(b, k) < At(a, k) THEN m
  ELSE memcmp(a, b, c, k + 1, m)

RECURSIVE fbckCompare(_, _, _, _)
\* range_traits_fbck_::compare from the k-th element on
fbckCompare(a, b, c, k) ==
  IF k = c THEN 0
  ELSE IF lessValue(At(a, k), At(b, k)) THEN -1
  ELSE IF lessValue(At(b, k), At(a, k)) THEN 1
  ELSE fbckCompare(a, b, c, k + 1)

\* traits_type::compare, chosen by the element type
traitsCompare(kind, a, b, c, m) ==
  IF kind = "char" THEN memcmp(a, b, c, 0, m)
  ELSE IF kind = "byte" THEN (IF c = 0 THEN 0 ELSE memcmp(a, b, c, 0, m))
  ELSE fbckCompare(a, b, c, 0)

\* Range::compare without the comparison of the sizes, for comparison
compareNoSizes(kind, t, o, m) ==
  traitsCompare(kind, t, o, IF Len(t) < Len(o) THEN Len(t) ELSE Len(o), m)

\* Range::compare(o)
compare(kind, t, o, m) ==
  LET tsize == Len(t)
      osize == Len(o)
      msize == IF tsize < osize THEN tsize ELSE osize
      res == traitsCompare(kind, t, o, msize, m)
  IN IF res = 0 /\ tsize # osize
     THEN ((sizeSub(osize, tsize) \div (2 ^ (SizeBits - 1))) * 2) - 1
     ELSE res

RECURSIVE eqLoop(_, _, _)
\* operator==, the element-by-element loop from the i-th element on
eqLoop(lhs, rhs, i) ==
  IF i = Len(lhs) THEN TRUE
  ELSE IF ~eqValue(At(lhs, i), At(rhs, i)) THEN FALSE
  ELSE eqLoop(lhs, rhs, i + 1)

\* operator==(lhs, rhs): memcmp of the byte images for integral element
\* types, the loop otherwise
equals(kind, lhs, rhs) ==
  IF Len(lhs) # Len(rhs) THEN FALSE
  ELSE IF kind # "double"
  THEN Len(lhs) = 0 \/ memcmp(lhs, rhs, Len(lhs), 0, 1) = 0
  ELSE eqLoop(lhs, rhs, 0)

NotCompared == [done |-> FALSE, ab |-> 0, ba |-> 0, eq |-> FALSE, m |-> 1]

\* a.compare(b), b.compare(a) and a == b
Compare ==
  /\ ~cmpResult.done
  /\ \E m \in 1..2 :
       cmpResult' = [done |-> TRUE, ab |-> compare(cmpKind, cmpA, cmpB, m),
                     ba |-> compare(cmpKind, cmpB, cmpA, m),
                     eq |-> equals(cmpKind, cmpA, cmpB), m |-> m]
  /\ UNCHANGED <<cmpKind, cmpA, cmpB>>
  /\ UNCHANGED outsideCmp

CmpNext == Compare

\* a is b's proper prefix
ProperPrefix(a, b) == Len(a) < Len(b) /\ a = SubSeq(b, 1, Len(a))

RECURSIVE ByteOrder(_, _, _)
\* the order of two byte strings of one length: that of the first bytes
\* that differ, 0 if none does
ByteOrder(a, b, i) ==
  IF i > Len(a) THEN 0
  ELSE IF a[i] # b[i] THEN (IF a[i] < b[i] THEN -1 ELSE 1)
  ELSE ByteOrder(a, b, i + 1)

\* the properties claimed of a, b and every third range c drawn from cs
OrderingLaws(cs) ==
  /\ sign(cmpResult.ab) = -sign(cmpResult.ba)
  /\ \A c \in cs :
       (cmpResult.ab <= 0 /\ compare(cmpKind, cmpB, c, cmpResult.m) <= 0)
         => compare(cmpKind, cmpA, c, cmpResult.m) <= 0
  /\ ProperPrefix(cmpA, cmpB) => cmpResult.ab < 0
  /\ (cmpKind \in {"char", "byte"} /\ Len(cmpA) = Len(cmpB))
       => sign(cmpResult.ab) = ByteOrder(cmpA, cmpB, 1)
  /\ cmpResult.eq <=> cmpResult.ab = 0

\* C19 as stated: for all ranges a, b, c over one element type, compare is
\* antisymmetric in sign and transitive, a proper prefix compares less, for
\* equal-length byte ranges the sign of compare is that of memcmp, and
\* a == b holds exactly when a.compare(b) == 0.
C19_CompareIsAnOrdering ==
  cmpResult.done => OrderingLaws(CmpRanges(cmpKind))

Ordered(s) == \A i \in 1..Len(s) : s[i] # FloatNaN

\* C19, amended: the same, for ranges none of whose elements is unordered
\* (as a floating-point NaN is).
C19_CompareOrdersOrderedElements ==
  (cmpResult.done /\ Ordered(cmpA) /\ Ordered(cmpB)) =>
    OrderingLaws({c \in CmpRanges(cmpKind) : Ordered(c)})

\* a proper prefix was compared with the longer range, both ways
C19_Witness ==
  /\ cmpResult.done /\ ProperPrefix(cmpA, cmpB) /\ Len(cmpA) > 0
  /\ cmpResult.ab < 0 /\ cmpResult.ba > 0 /\ ~cmpResult.eq

(***************************************************************************)
(* HPHP::jit::ProfData: the prologue map m_proflogueDB, written by         *)
(* addTransProfPrologue and addProfTrans and read by proflogueTransId.     *)
(* A function is its id and its number of non-variadic parameters.         *)
(***************************************************************************)
\* translation ids handed out, and registrations in one run
MaxProTrans == 2
MaxProCalls == 2
kInvalidTransID == -1

ProTransIDs == 0..(MaxProTrans - 1)
ProFuncs == {[id |-> 1, numNonVariadicParams |-> 0],
             [id |-> 2, numNonVariadicParams |-> 1]}
ProArgs(func) == 0..(func.numNonVariadicParams + 2)

PrologueID(funcId, nArgs) == [funcId |-> funcId, nArgs |-> nArgs]
NoProfTransRec == [kind |-> "null"]

\* the entries of db under key
entriesAt(db, key) == {e \in db : e.key = key}

\* an emplace that stores the new value over an existing one, for comparison
emplaceOverwrite(db, key, value) ==
  [ins |-> TRUE,
   db |-> (db \ entriesAt(db, key)) \cup {[key |-> key, value |-> value]}]

\* m_proflogueDB.emplace(key, value): insert unless the key is there
emplace(db, key, value) ==
  IF entriesAt(db, key) # {}
  THEN [ins |-> FALSE, db |-> db]
  ELSE [ins |-> TRUE, db |-> db \cup {[key |-> key, value |-> value]}]

\* folly::get_default(m_proflogueDB, key, kInvalidTransID)
get_default(db, key) ==
  IF entriesAt(db, key) = {} THEN kInvalidTransID
  ELSE (CHOOSE e \in entriesAt(db, key) : TRUE).value

\* ProfData::proflogueTransId(func, nArgs)
proflogueTransId(db, func, nArgs) ==
  LET numParams == func.numNonVariadicParams
      clamped == IF nArgs > numParams THEN numParams + 1 ELSE nArgs
  IN get_default(db, PrologueID(func.id, clamped))

\* ProfData::addTransProfPrologue(transID, sk, nArgs, asmSize) for an
\* allocated transID
AddTransProfPrologue ==
  /\ ~proAborted /\ proCalls < MaxProCalls
  /\ \E transID \in ProTransIDs, func \in ProFuncs :
       \E nArgs \in ProArgs(func) :
         LET res == emplace(m_proflogueDB, PrologueID(func.id, nArgs), transID)
         IN /\ m_proflogueDB' = res.db
            /\ proAborted' = ~res.ins
            /\ proTransRecs' =
                 IF res.ins
                 THEN [proTransRecs EXCEPT ![transID + 1] =
                         [kind |-> "prologue", funcId |-> func.id, nArgs |-> nArgs]]
                 ELSE proTransRecs
            /\ proLast' = [op |-> "addTransProfPrologue", transID |-> transID,
                           key |-> PrologueID(func.id, nArgs),
                           before |-> m_proflogueDB]
  /\ proCalls' = proCalls + 1
  /\ UNCHANGED outsidePro

\* m_transRecs.resize(transID) when transID > size, then emplace_back(ptr)
resizeAndAppend(recs, transID, rec) ==
  LET n == IF transID > Len(recs) THEN transID ELSE Len(recs)
  IN [i \in 1..(n + 1) |->
        IF i <= Len(recs) THEN recs[i]
        ELSE IF i = n + 1 THEN rec ELSE NoProfTransRec]

\* ProfData::addProfTrans(transID, ptr) for a prologue record, called as its
\* assertion requires, with transID >= m_transRecs.size()
AddProfTransPrologue ==
  /\ ~proAborted /\ proCalls < MaxProCalls
  /\ \E transID \in Len(proTransRecs)..(Len(proTransRecs) + 1), func \in ProFuncs :
       \E nArgs \in ProArgs(func) :
         LET res == emplace(m_proflogueDB, PrologueID(func.id, nArgs), transID)
         IN /\ m_proflogueDB' = res.db
            /\ proTransRecs' =
                 resizeAndAppend(proTransRecs, transID,
                   [kind |-> "prologue", funcId |-> func.id, nArgs |-> nArgs])
            /\ proLast' = [op |-> "addProfTrans", transID |-> transID,
                           key |-> PrologueID(func.id, nArgs),
                           before |-> m_proflogueDB]
  /\ proCalls' = proCalls + 1
  /\ UNCHANGED proAborted
  /\ UNCHANGED outsidePro

\* a call of proflogueTransId(func, nArgs)
ProflogueTransId ==
  /\ ~proAborted
  /\ \E func \in ProFuncs :
       \E nArgs \in ProArgs(func) :
         proLast' = [op |-> "proflogueTransId", func |-> func, nArgs |-> nArgs,
                     ret |-> proflogueTransId(m_proflogueDB, func, nArgs)]
  /\ UNCHANGED <<m_proflogueDB, proTransRecs, proCalls, proAborted>>
  /\ UNCHANGED outsidePro

ProNext == AddTransProfPrologue \/ AddProfTransPrologue \/ ProflogueTransId

\* C18: addTransProfPrologue for a pair that already has a prologue
\* translation registered is a fatal assertion failure; across any sequence
\* of calls the map holds at most one id per pair and an existing entry is
\* never overwritten; proflogueTransId returns that id, or the invalid id
\* when none was registered, after clamping nArgs above the non-variadic
\* parameter count to that count plus one.
C18_PrologueRegisteredOnce ==
  /\ \A e1, e2 \in m_proflogueDB : e1.key = e2.key => e1 = e2
  /\ proLast.op = "addTransProfPrologue" =>
       /\ proAborted <=> entriesAt(proLast.before, proLast.key) # {}
       /\ proAborted => m_proflogueDB = proLast.before
       /\ ~proAborted =>
            m_proflogueDB = proLast.before
              \cup {[key |-> proLast.key, value |-> proLast.transID]}
  /\ proLast.op = "addProfTrans" => proLast.before \subseteq m_proflogueDB
  /\ proLast.op = "proflogueTransId" =>
       LET n == proLast.func.numNonVariadicParams
           key == PrologueID(proLast.func.id,
                             IF proLast.nArgs > n THEN n + 1 ELSE proLast.nArgs)
       IN IF \E e \in m_proflogueDB : e.key = key
          THEN [key |-> key, value |-> proLast.ret] \in m_proflogueDB
          ELSE proLast.ret = kInvalidTransID

\* a second registration of a pair, under another id, ended the process
C18_Witness ==
  /\ proAborted /\ proLast.op = "addTransProfPrologue"
  /\ \E e \in m_proflogueDB :
       e.key = proLast.key /\ e.value # proLast.transID

(***************************************************************************)
(* fizz::ech: generateGreasePSK and generateGreasePSKForHRR.  A            *)
(* ClientPresharedKey is its identities and binders; the factory's random  *)
(* bytes are any of RandomByteValues, one value filling a buffer.          *)
(***************************************************************************)
MaxIdentities == 2
kGreasePSKIdentitySize == 16
RandomByteValues == {0, 1}
SourceByte == 7

NoPsk == [present |-> FALSE, identities |-> <<>>, binders |-> <<>>]

\* factory->makeRandomIOBuf(size): the buffers it may return
makeRandomIOBuf(size) == {[i \in 1..size |-> b] : b \in RandomByteValues}

\* the grease identities the loop body may build for one source identity
greaseIdentities(identity, keepIdentity) ==
  {[psk_identity |-> id, obfuscated_ticket_age |-> age] :
     id \in (IF keepIdentity THEN {identity.psk_identity}
             ELSE makeRandomIOBuf(kGreasePSKIdentitySize)),
     age \in RandomByteValues}

\* the grease binders it may build for one source binder
greaseBinders(binder) == makeRandomIOBuf(Len(binder))

RECURSIVE greaseLoop(_, _, _, _)
\* generateGreasePskCommon, the loop from the i-th identity on, with the
\* PSK built so far: every PSK it may return
greaseLoop(source, keepIdentity, i, grease) ==
  IF i > Len(source.identities) THEN {grease}
  ELSE UNION {greaseLoop(source, keepIdentity, i + 1,
                [present |-> TRUE,
                 identities |-> Append(grease.identities, gi),
                 binders |-> Append(grease.binders, gb)]) :
              gi \in greaseIdentities(source.identities[i], keepIdentity),
              gb \in greaseBinders(source.binders[i])}

\* generateGreasePskCommon(source, factory, keepIdentity)
generateGreasePskCommon(source, keepIdentity) ==
  greaseLoop(source, keepIdentity, 1,
             [present |-> TRUE, identities |-> <<>>, binders |-> <<>>])

\* generateGreasePSK(chloInner, factory), innerPsk being the inner hello's
\* pre_shared_key extension if it has one
generateGreasePSK(innerPsk) ==
  IF ~innerPsk.present THEN {NoPsk}
  ELSE generateGreasePskCommon(innerPsk, FALSE)

\* generateGreasePSKForHRR(previousPsk, factory)
generateGreasePSKForHRR(previousPsk) ==
  generateGreasePskCommon(previousPsk, TRUE)

\* source PSKs: as many binders as identities; identities of 1, 2 or 16
\* bytes, binders of 1 or 2
SourceEntries ==
  {[idLen |-> 1, binderLen |-> 1], [idLen |-> 2, binderLen |-> 2],
   [idLen |-> kGreasePSKIdentitySize, binderLen |-> 2]}
SourcePsk(entries) ==
  [present |-> TRUE,
   identities |-> [i \in 1..Len(entries) |->
                     [psk_identity |-> [k \in 1..entries[i].idLen |-> SourceByte],
                      obfuscated_ticket_age |-> SourceByte]],
   binders |-> [i \in 1..Len(entries) |->
                  [k \in 1..entries[i].binderLen |-> SourceByte]]]
SourcePsks == {SourcePsk(es) : es \in SeqsUpTo(SourceEntries, MaxIdentities)}

\* the client builds the grease PSK of its first ClientHelloOuter
GenerateGreasePSK ==
  /\ grPc = "start"
  /\ grResult' \in generateGreasePSK(grSource)
  /\ grPc' = "grease"
  /\ UNCHANGED grSource
  /\ UNCHANGED outsideGrease

\* the client builds the grease PSK of its retry from the one it sent
GenerateGreasePSKForHRR ==
  /\ grPc = "start" /\ grSource.present
  /\ grResult' \in generateGreasePSKForHRR(grSource)
  /\ grPc' = "hrr"
  /\ UNCHANGED grSource
  /\ UNCHANGED outsideGrease

GreaseNext == GenerateGreasePSK \/ GenerateGreasePSKForHRR

\* C23: generateGreasePSK returns none iff the inner hello has no
\* pre_shared_key extension; otherwise the grease PSK has as many identities
\* and binders as the source, each binder as long as the source binder at
\* its index and each identity as long as the source identity at its index;
\* generateGreasePSKForHRR keeps every identity's bytes and draws binders of
\* the same lengths.
C23_GreasePskSizeMatched ==
  /\ grPc = "grease" =>
       /\ grResult.present <=> grSource.present
       /\ Len(grResult.identities) = Len(grSource.identities)
       /\ Len(grResult.binders) = Len(grSource.binders)
       /\ \A i \in 1..Len(grResult.binders) :
            Len(grResult.binders[i]) = Len(grSource.binders[i])
       /\ \A i \in 1..Len(grResult.identities) :
            Len(grResult.identities[i].psk_identity)
              = Len(grSource.identities[i].psk_identity)
  /\ grPc = "hrr" =>
       /\ Len(grResult.identities) = Len(grSource.identities)
       /\ Len(grResult.binders) = Len(grSource.binders)
       /\ \A i \in 1..Len(grResult.binders) :
            Len(grResult.binders[i]) = Len(grSource.binders[i])
       /\ \A i \in 1..Len(grResult.identities) :
            grResult.identities[i].psk_identity
              = grSource.identities[i].psk_identity

(***************************************************************************)
(* HPHP::jit::ProfData: addTransProfile and addTransProfPrologue step by   *)
(* step, against a thread that reads m_funcProfTrans, proflogueTransId and *)
(* dvFuncletTransId in between.  One function, one DV funclet entry, one   *)
(* prologue argument count.                                                *)
(***************************************************************************)
NumPubThreads == 2
MaxPubTrans == 2
PubThreads == 1..NumPubThreads

NoTranslation == [transID |-> kInvalidTransID, kind |-> "none"]
NoObservation == [via |-> "none", id |-> kInvalidTransID]
DvKey == [funcId |-> 1, offset |-> 1]
PrologueKey == PrologueID(1, 0)

\* a store that leaves the slot as it was, for comparison
resetRecNowhere(recs, transID, rec) == recs

\* m_transRecs[transID].reset(rec)
resetRec(recs, transID, rec) == [recs EXCEPT ![transID + 1] = rec]

\* the record of a translation of the given kind
ProfTransRec(kind) ==
  [kind |-> IF kind = "prologue" THEN "ProfPrologue" ELSE "Profile"]

\* allocTransID(): the lock is taken, the slot appended and the lock
\* released, with no other holder in between
PubAllocTransID(t) ==
  /\ ~pubAborted /\ pubPc[t] = "idle"
  /\ pubTransLock = NoThread
  /\ Len(pubTransRecs) < MaxPubTrans
  /\ pubTransRecs' = Append(pubTransRecs, NoProfTransRec)
  /\ pubLocal' = [pubLocal EXCEPT ![t] =
                    [transID |-> Len(pubTransRecs), kind |-> "none"]]
  /\ pubPc' = [pubPc EXCEPT ![t] = "allocated"]
  /\ UNCHANGED <<pubTransLock, pubFuncProfTrans, pubDvFuncletDB,
                 pubProflogueDB, pubAborted, pubObs>>
  /\ UNCHANGED outsidePub

\* the thread enters addTransProfile, for a function body or a DV funclet,
\* or addTransProfPrologue
PubEnter(t) ==
  /\ ~pubAborted /\ pubPc[t] = "allocated"
  /\ \E kind \in {"body", "dvFunclet", "prologue"} :
       /\ pubLocal' = [pubLocal EXCEPT ![t].kind = kind]
       /\ pubPc' = [pubPc EXCEPT ![t] =
                      IF kind = "body" THEN "lockRecs"
                      ELSE IF kind = "dvFunclet" THEN "emplaceDv"
                      ELSE "emplacePrologue"]
  /\ UNCHANGED <<pubTransRecs, pubTransLock, pubFuncProfTrans, pubDvFuncletDB,
                 pubProflogueDB, pubAborted, pubObs>>
  /\ UNCHANGED outsidePub

\* addTransProfile: m_dvFuncletDB.emplace(startSk.toAtomicInt(), transID)
PubEmplaceDvFunclet(t) ==
  /\ ~pubAborted /\ pubPc[t] = "emplaceDv"
  /\ pubDvFuncletDB' = emplace(pubDvFuncletDB, DvKey, pubLocal[t].transID).db
  /\ pubPc' = [pubPc EXCEPT ![t] = "lockRecs"]
  /\ UNCHANGED <<pubTransRecs, pubTransLock, pubFuncProfTrans, pubProflogueDB,
                 pubLocal, pubAborted, pubObs>>
  /\ UNCHANGED outsidePub

\* addTransProfPrologue: m_proflogueDB.emplace and the always_assert on it
PubEmplacePrologue(t) ==
  /\ ~pubAborted /\ pubPc[t] = "emplacePrologue"
  /\ LET res == emplace(pubProflogueDB, PrologueKey, pubLocal[t].transID)
     IN /\ pubProflogueDB' = res.db
        /\ pubAborted' = ~res.ins
        /\ pubPc' = [pubPc EXCEPT ![t] = IF res.ins THEN "lockRecs" ELSE "aborted"]
  /\ UNCHANGED <<pubTransRecs, pubTransLock, pubFuncProfTrans, pubDvFuncletDB,
                 pubLocal, pubObs>>
  /\ UNCHANGED outsidePub

\* std::unique_lock lock{m_transLock}
PubLockTransRecs(t) ==
  /\ ~pubAborted /\ pubPc[t] = "lockRecs"
  /\ pubTransLock = NoThread
  /\ pubTransLock' = t
  /\ pubPc' = [pubPc EXCEPT ![t] = "store"]
  /\ UNCHANGED <<pubTransRecs, pubFuncProfTrans, pubDvFuncletDB, pubProflogueDB,
                 pubLocal, pubAborted, pubObs>>
  /\ UNCHANGED outsidePub

\* m_transRecs[transID].reset(new ProfTransRec(...)) and the end of the
\* lock's scope; addTransProfPrologue returns here
PubStoreRec(t) ==
  /\ ~pubAborted /\ pubPc[t] = "store"
  /\ pubTransRecs' = resetRec(pubTransRecs, pubLocal[t].transID,
                              ProfTransRec(pubLocal[t].kind))
  /\ pubTransLock' = NoThread
  /\ pubPc' = [pubPc EXCEPT ![t] =
                 IF pubLocal[t].kind = "prologue" THEN "idle" ELSE "publish"]
  /\ UNCHANGED <<pubFuncProfTrans, pubDvFuncletDB, pubProflogueDB, pubLocal,
                 pubAborted, pubObs>>
  /\ UNCHANGED outsidePub

\* addTransProfile: m_funcProfTrans[funcId].push_back(transID) under
\* m_funcProfTransLock
PubPushFuncProfTrans(t) ==
  /\ ~pubAborted /\ pubPc[t] = "publish"
  /\ pubFuncProfTrans' = Append(pubFuncProfTrans, pubLocal[t].transID)
  /\ pubPc' = [pubPc EXCEPT ![t] = "idle"]
  /\ UNCHANGED <<pubTransRecs, pubTransLock, pubDvFuncletDB, pubProflogueDB,
                 pubLocal, pubAborted, pubObs>>
  /\ UNCHANGED outsidePub

\* the reader takes an id from m_funcProfTrans[funcId], under the lock
PubReadFuncProfTrans ==
  /\ ~pubAborted
  /\ \E i \in 1..Len(pubFuncProfTrans) :
       pubObs' = [via |-> "funcProfTrans", id |-> pubFuncProfTrans[i]]
  /\ UNCHANGED <<pubTransRecs, pubTransLock, pubFuncProfTrans, pubDvFuncletDB,
                 pubProflogueDB, pubPc, pubLocal, pubAborted>>
  /\ UNCHANGED outsidePub

\* the reader calls proflogueTransId(func, nArgs)
PubProflogueTransId ==
  /\ ~pubAborted
  /\ pubObs' = [via |-> "proflogueTransId",
                id |-> get_default(pubProflogueDB, PrologueKey)]
  /\ UNCHANGED <<pubTransRecs, pubTransLock, pubFuncProfTrans, pubDvFuncletDB,
                 pubProflogueDB, pubPc, pubLocal, pubAborted>>
  /\ UNCHANGED outsidePub

\* the reader calls dvFuncletTransId(sk)
PubDvFuncletTransId ==
  /\ ~pubAborted
  /\ pubObs' = [via |-> "dvFuncletTransId",
                id |-> get_default(pubDvFuncletDB, DvKey)]
  /\ UNCHANGED <<pubTransRecs, pubTransLock, pubFuncProfTrans, pubDvFuncletDB,
                 pubProflogueDB, pubPc, pubLocal, pubAborted>>
  /\ UNCHANGED outsidePub

PubNext ==
  \/ \E t \in PubThreads :
       \/ PubAllocTransID(t) \/ PubEnter(t)
       \/ PubEmplaceDvFunclet(t) \/ PubEmplacePrologue(t)
       \/ PubLockTransRecs(t) \/ PubStoreRec(t) \/ PubPushFuncProfTrans(t)
  \/ PubReadFuncProfTrans \/ PubProflogueTransId \/ PubDvFuncletTransId

\* the record table holds an installed record of the given kind for id
Installed(id, kind) ==
  /\ id + 1 \in 1..Len(pubTransRecs)
  /\ pubTransRecs[id + 1].kind = kind

\* C24: whenever a thread observes a translation id in m_funcProfTrans, the
\* record table already holds the installed ProfTransRec for that id; the id
\* is appended only after the record was stored under the translation lock.
C24_ListedAfterRecordStored ==
  /\ \A i \in 1..Len(pubFuncProfTrans) : Installed(pubFuncProfTrans[i], "Profile")
  /\ pubObs.via = "funcProfTrans" => Installed(pubObs.id, "Profile")
  /\ \A t \in PubThreads :
       pubPc[t] = "publish" => Installed(pubLocal[t].transID, "Profile")

\* the reader took an id from the list while another thread, past its
\* emplace, had not yet stored its record
C24_Witness ==
  /\ pubObs.via = "funcProfTrans"
  /\ \E t \in PubThreads :
       /\ pubPc[t] \in {"lockRecs", "store"}
       /\ pubTransRecs[pubLocal[t].transID + 1] = NoProfTransRec

\* C28: whenever proflogueTransId or dvFuncletTransId returns a valid
\* translation id to any thread, the record table already holds the
\* installed ProfTransRec for that id, non-null and of the matching kind.
C28_LookupImpliesInstalled ==
  /\ (pubObs.via = "proflogueTransId" /\ pubObs.id # kInvalidTransID)
       => Installed(pubObs.id, "ProfPrologue")
  /\ (pubObs.via = "dvFuncletTransId" /\ pubObs.id # kInvalidTransID)
       => Installed(pubObs.id, "Profile")

(***************************************************************************)
(* fizz::ech: generateAndReplaceOuterExtensions followed by                *)
(* substituteOuterExtensions, on extension lists alone                     *)
(***************************************************************************)
MaxRtInner == 3
MaxRtTypes == 2

NotExpanded == [done |-> FALSE, threw |-> FALSE, extensions |-> <<>>]
RtExtension(t) == [extension_type |-> t, extension_data |-> <<1>>]
RtInnerLists ==
  {e \in SeqsUpTo({RtExtension(t) : t \in ExtTypes}, MaxRtInner) :
     \A i, j \in 1..Len(e) : e[i] = e[j] => i = j}
RtTypeLists ==
  SeqsUpTo({"server_name", "supported_versions", "encrypted_client_hello"},
           MaxRtTypes)
Reversed(s) == [i \in 1..Len(s) |-> s[Len(s) + 1 - i]]
\* outer hellos made from the inner one: the same extensions, the same with
\* a pre_shared_key of its own in front, the same reversed, the same
\* with other content, and none
RtOuterLists(inner) ==
  { inner,
    <<[extension_type |-> "pre_shared_key", extension_data |-> <<2>>]>> \o inner,
    Reversed(inner),
    [i \in 1..Len(inner) |-> [inner[i] EXCEPT !.extension_data = <<2>>]],
    <<>> }

\* the server's expansion of what the client's compression produced
CompressAndExpand ==
  /\ ~rtResult.done
  /\ LET compressed == generateAndReplaceOuterExtensions(rtInner, rtTypes)
         res == substituteOuterExtensions(compressed, rtOuter)
     IN rtResult' = [done |-> TRUE, threw |-> res.threw,
                     extensions |-> res.extensions]
  /\ UNCHANGED <<rtInner, rtTypes, rtOuter>>
  /\ UNCHANGED outsideRt

RtNext == CompressAndExpand

RtSelected(ext) == stdFound(rtTypes, ext.extension_type)
RtSelectedAt == {i \in 1..Len(rtInner) : RtSelected(rtInner[i])}
RtOuterCarriesSelected ==
  SelectSeq(rtOuter, RtSelected) = SelectSeq(rtInner, RtSelected)
RtSelectedAdjacent ==
  \A i, j \in RtSelectedAt : \A k \in i..j : k \in RtSelectedAt
RtNoECHTypes ==
  \A i \in 1..Len(rtInner) :
    rtInner[i].extension_type
      \notin {"ech_outer_extensions", "encrypted_client_hello"}

MaxSniLen == 3

NoName == -1
FillerLens == {0, 8}
NotPadded == [done |-> FALSE, lengths |-> <<>>]
SniTypeLists ==
  {<<>>, <<"server_name">>, <<"supported_versions">>,
   <<"supported_versions", "server_name">>}

\* an inner hello's extensions: a server_name extension with one host name,
\* unless the hello has none, and one other extension
SniExtensions(name, filler) ==
  (IF name = NoName THEN <<>>
   ELSE <<[extension_type |-> "server_name", extension_data |-> <<name>>]>>)
  \o <<[extension_type |-> "supported_versions",
        extension_data |-> Zeros(filler)]>>

\* the encoded length of an extension: type and length, then for a
\* server_name the list length and per name its type, length and bytes, for
\* an ech_outer_extensions the list length and two bytes per type
extensionLength(ext) ==
  4 + (IF ext.extension_type = "server_name"
       THEN 2 + 3 * Len(ext.extension_data)
              + (IF Len(ext.extension_data) = 0 THEN 0
                 ELSE ext.extension_data[1])
       ELSE IF ext.extension_type = "ech_outer_extensions"
       THEN 1 + 2 * (Len(ext.extension_data) - 1)
       ELSE Len(ext.extension_data))
RECURSIVE extensionsLength(_)
extensionsLength(exts) ==
  IF exts = <<>> THEN 0
  ELSE extensionLength(Head(exts)) + extensionsLength(Tail(exts))
\* encode(chlo)->computeChainDataLength() of a hello with an empty session
\* id, one cipher suite and one compression method
encodedLength(exts) == (43 + extensionsLength(exts)) % SizeMod

\* the steps of encryptClientHelloImpl without the padding
encodedInnerLengthUnpadded(extensions, maxLen, outerExtensionTypes) ==
  [threw |-> FALSE,
   length |-> encodedLength(generateAndReplaceOuterExtensions(
                              extensions, outerExtensionTypes))]

\* encryptClientHelloImpl up to the padding: the length of
\* encodedClientHelloInner with the padding chained to it
encodedInnerLength(extensions, maxLen, outerExtensionTypes) ==
  LET encodedSize == encodedLength(generateAndReplaceOuterExtensions(
                                     extensions, outerExtensionTypes))
      padding == calculateECHPadding([extensions |-> extensions],
                                     encodedSize, maxLen)
  IN [threw |-> padding.threw,
      length |-> sizeAdd(encodedSize, padding.padding)]

\* encryptClientHello on each of the two inner hellos
EncryptBoth ==
  /\ ~sniResult.done
  /\ sniResult' =
       [done |-> TRUE,
        lengths |-> [k \in 1..2 |->
                       encodedInnerLength(SniExtensions(sniNames[k], sniFiller),
                                          sniMaxLen, sniTypes)]]
  /\ UNCHANGED <<sniMaxLen, sniTypes, sniFiller, sniNames>>
  /\ UNCHANGED outsideSni

SniNext == EncryptBoth

NamesWithinMaxLen == \A k \in 1..2 : sniNames[k] <= sniMaxLen
SniMoved == stdFound(sniTypes, "server_name")
SameLength ==
  /\ ~sniResult.lengths[1].threw /\ ~sniResult.lengths[2].threw
  /\ sniResult.lengths[1].length = sniResult.lengths[2].length

\* C30 as stated: for a fixed maxLen and fixed outerExtensionTypes, two
\* inner hellos that differ only in the host name (both within maxLen), or
\* of which one has no server_name extension, yield the same padded encoded
\* inner hello length, whether or not server_name is moved to
\* ech_outer_extensions.
C30_PaddedLengthHidesName ==
  (sniResult.done /\ NamesWithinMaxLen) => SameLength

\* C30, amended: the same, when server_name is not among the extensions
\* moved to ech_outer_extensions.
C30_PaddedLengthHidesNameInInner ==
  (sniResult.done /\ NamesWithinMaxLen /\ ~SniMoved) => SameLength

\* a hello with a host name shorter than maxLen and a hello without a
\* server_name extension, the other extension moved, padded to one length
C30_Witness ==
  /\ sniResult.done /\ NamesWithinMaxLen /\ ~SniMoved
  /\ sniNames[1] = NoName /\ sniNames[2] \in 0..(sniMaxLen - 1)
  /\ sniTypes # <<>>
  /\ SameLength

(***************************************************************************)
(* Specifications                                                          *)
(***************************************************************************)
\* the state of a fragment that a specification does not exercise
RangeIdle == r = <<>> /\ last = NoCall
ProfIdle ==
  /\ m_transRecs = <<>> /\ m_transLock = NoThread /\ m_countersReset = FALSE
  /\ requestCount = 0 /\ tpc = [t \in Threads |-> "idle"]
  /\ tlocal = [t \in Threads |-> 0] /\ allocLog = <<>> /\ resetLog = <<>>

LifeIdle ==
  /\ pstate = "pre" /\ cfgPGO = FALSE /\ cfgKeepProfData = FALSE
  /\ s_profData = NullPtr /\ s_profDataHolder = NullPtr
  /\ rl_profData = [q \in RequestThreads |-> NullPtr] /\ deleted = 0
  /\ treadmill = <<>> /\ reqpc = [q \in RequestThreads |-> "out"]
  /\ sawCleared = [q \in RequestThreads |-> FALSE] /\ cleared = FALSE
  /\ dpc = [d \in Discarders |-> "idle"]
  /\ ddata = [d \in Discarders |-> NullPtr] /\ discardCalls = 0

NegIdle ==
  /\ configs = <<>> /\ supportedKEMs = <<>> /\ supportedAeads = <<>>
  /\ negotiated = [status |-> "pending"]

\* folly::Range alone
PadIdle ==
  /\ padChlo = [extensions |-> <<>>] /\ padEncodedSize = 0 /\ padMaxLen = 0
  /\ padResult = NoPadding

AccIdle ==
  /\ accMsg = [form |-> "none"] /\ accOracle = <<>> /\ accPc = "idle"
  /\ accWasSet = FALSE /\ accTampered = FALSE /\ accResult = "none"

EchIdle ==
  /\ echInner = [extensions |-> <<>>] /\ echOuter = [extensions |-> <<>>]
  /\ echOuterTypes = <<>> /\ echGreasePsk = FALSE /\ echPc = "idle"
  /\ echExtension = NoECHExtension /\ hpkeSealed = NothingSealed
  /\ echDecrypted = DecryptThrew

SubIdle ==
  /\ subInner = <<>> /\ subOuter = <<>>
  /\ subResult = [done |-> FALSE, threw |-> FALSE, extensions |-> <<>>]

GenIdle ==
  /\ genArgs = NoArgs /\ genEnv = NoEnv /\ genPc = "idle"
  /\ genExit = -1 /\ genOutput = "none" /\ genNumThreads = DefaultNumThreads

CmpIdle ==
  /\ cmpKind = "char" /\ cmpA = <<>> /\ cmpB = <<>> /\ cmpResult = NotCompared

ProIdle ==
  /\ m_proflogueDB = {} /\ proTransRecs = <<>> /\ proCalls = 0
  /\ proAborted = FALSE /\ proLast = [op |-> "idle"]

GreaseIdle ==
  /\ grSource = NoPsk /\ grPc = "idle" /\ grResult = NoPsk

PubIdle ==
  /\ pubTransRecs = <<>> /\ pubTransLock = NoThread /\ pubFuncProfTrans = <<>>
  /\ pubDvFuncletDB = {} /\ pubProflogueDB = {}
  /\ pubPc = [t \in PubThreads |-> "parked"]
  /\ pubLocal = [t \in PubThreads |-> NoTranslation]
  /\ pubAborted = FALSE /\ pubObs = NoObservation

RtIdle ==
  /\ rtInner = <<>> /\ rtTypes = <<>> /\ rtOuter = <<>> /\ rtResult = NotExpanded

SniIdle ==
  /\ sniMaxLen = 0 /\ sniTypes = <<>> /\ sniFiller = 0 /\ sniNames = <<NoName, NoName>> /\ sniResult = NotPadded

InitRange ==
  /\ r \in Views
  /\ last = NoCall
  /\ ProfIdle /\ LifeIdle /\ NegIdle /\ PadIdle /\ AccIdle /\ EchIdle /\ SubIdle /\ GenIdle /\ CmpIdle /\ ProIdle /\ GreaseIdle /\ PubIdle /\ RtIdle /\ SniIdle
SpecRange == InitRange /\ [][RangeNext]_vars
\* any view, and one member function called on it
SpecRangeCalls == InitRange /\ [][RangeCallNext]_vars
\* any view over the splitting alphabet, split step by step by one delimiter
InitSplit ==
  /\ r \in SplitViews
  /\ last = NoCall
  /\ ProfIdle /\ LifeIdle /\ NegIdle /\ PadIdle /\ AccIdle /\ EchIdle /\ SubIdle /\ GenIdle /\ CmpIdle /\ ProIdle /\ GreaseIdle /\ PubIdle /\ RtIdle /\ SniIdle
SpecSplit == InitSplit /\ [][SplitNext]_vars

\* one ProfData object under concurrent callers
InitProfData ==
  /\ m_transRecs = <<>>
  /\ m_transLock = NoThread
  /\ m_countersReset = FALSE
  /\ requestCount = 0
  /\ tpc = [t \in Threads |-> "idle"]
  /\ tlocal = [t \in Threads |-> 0]
  /\ allocLog = <<>>
  /\ resetLog = <<>>
  /\ RangeIdle /\ LifeIdle /\ NegIdle /\ PadIdle /\ AccIdle /\ EchIdle /\ SubIdle /\ GenIdle /\ CmpIdle /\ ProIdle /\ GreaseIdle /\ PubIdle /\ RtIdle /\ SniIdle
SpecProfData == InitProfData /\ [][ProfNext]_vars

\* the life of the ProfData singleton, for either setting of Cfg::Jit::PGO and
\* Cfg::Eval::KeepProfData
InitProfLife ==
  /\ pstate = "pre"
  /\ cfgPGO \in BOOLEAN
  /\ cfgKeepProfData \in BOOLEAN
  /\ s_profData = NullPtr
  /\ s_profDataHolder = NullPtr
  /\ rl_profData = [q \in RequestThreads |-> NullPtr]
  /\ deleted = 0
  /\ treadmill = <<>>
  /\ reqpc = [q \in RequestThreads |-> "out"]
  /\ sawCleared = [q \in RequestThreads |-> FALSE]
  /\ cleared = FALSE
  /\ dpc = [d \in Discarders |-> "idle"]
  /\ ddata = [d \in Discarders |-> NullPtr]
  /\ discardCalls = 0
  /\ RangeIdle /\ ProfIdle /\ NegIdle /\ PadIdle /\ AccIdle /\ EchIdle /\ SubIdle /\ GenIdle /\ CmpIdle /\ ProIdle /\ GreaseIdle /\ PubIdle /\ RtIdle /\ SniIdle
SpecProfLife == InitProfLife /\ [][LifeNext]_vars

\* negotiateECHConfig on every list of configs, for a client that supports
\* X25519 and P-256 and either AES-128-GCM alone or both AES-GCM suites
InitNegotiate ==
  /\ configs \in ConfigLists
  /\ supportedKEMs = <<32, 16>>
  /\ supportedAeads \in {<<1>>, <<1, 2>>}
  /\ negotiated = [status |-> "pending"]
  /\ RangeIdle /\ ProfIdle /\ LifeIdle /\ PadIdle /\ AccIdle /\ EchIdle /\ SubIdle /\ GenIdle /\ CmpIdle /\ ProIdle /\ GreaseIdle /\ PubIdle /\ RtIdle /\ SniIdle
SpecNegotiate == InitNegotiate /\ [][NegNext]_vars

\* negotiateECHConfig on configs that differ in their public names only
InitPublicName ==
  /\ configs \in NamedConfigLists
  /\ supportedKEMs = <<32, 16>>
  /\ supportedAeads = <<1>>
  /\ negotiated = [status |-> "pending"]
  /\ RangeIdle /\ ProfIdle /\ LifeIdle /\ PadIdle /\ AccIdle /\ EchIdle /\ SubIdle /\ GenIdle /\ CmpIdle /\ ProIdle /\ GreaseIdle /\ PubIdle /\ RtIdle /\ SniIdle
SpecPublicName == InitPublicName /\ [][NegNext]_vars

\* calculateECHPadding on one inner hello, encoded size and maxLen
InitPadding ==
  /\ padChlo \in {[extensions |-> e] : e \in PadExtensionLists}
  /\ padEncodedSize \in PadSizes
  /\ padMaxLen \in PadSizes
  /\ padResult = NoPadding
  /\ RangeIdle /\ ProfIdle /\ LifeIdle /\ NegIdle /\ AccIdle /\ EchIdle /\ SubIdle /\ GenIdle /\ CmpIdle /\ ProIdle /\ GreaseIdle /\ PubIdle /\ RtIdle /\ SniIdle
SpecPadding == InitPadding /\ [][PadNext]_vars

\* one message; the server may set its confirmation, the client checks it
InitAccept ==
  /\ accMsg \in AccMessages
  /\ accOracle = <<>>
  /\ accPc = "start"
  /\ accWasSet = FALSE /\ accTampered = FALSE /\ accResult = "none"
  /\ RangeIdle /\ ProfIdle /\ LifeIdle /\ NegIdle /\ PadIdle /\ EchIdle /\ SubIdle /\ GenIdle /\ CmpIdle /\ ProIdle /\ GreaseIdle /\ PubIdle /\ RtIdle /\ SniIdle
SpecAccept == InitAccept /\ [][AccNext]_vars

\* one inner hello encrypted into an outer hello, sent, and decrypted
InitECH ==
  /\ echInner \in InnerHellos
  /\ echOuter \in OuterHellos
  /\ echOuterTypes \in OuterTypeLists
  /\ echGreasePsk \in BOOLEAN
  /\ echPc = "start"
  /\ echExtension = NoECHExtension /\ hpkeSealed = NothingSealed
  /\ echDecrypted = DecryptThrew
  /\ RangeIdle /\ ProfIdle /\ LifeIdle /\ NegIdle /\ PadIdle /\ AccIdle /\ SubIdle /\ GenIdle /\ CmpIdle /\ ProIdle /\ GreaseIdle /\ PubIdle /\ RtIdle /\ SniIdle
SpecECH == InitECH /\ [][EchNext]_vars

\* substituteOuterExtensions on one inner list and one outer list
InitSubstitute ==
  /\ subInner \in SubInnerLists
  /\ subOuter \in SubOuterLists
  /\ subResult = [done |-> FALSE, threw |-> FALSE, extensions |-> <<>>]
  /\ RangeIdle /\ ProfIdle /\ LifeIdle /\ NegIdle /\ PadIdle /\ AccIdle /\ EchIdle /\ GenIdle /\ CmpIdle /\ ProIdle /\ GreaseIdle /\ PubIdle /\ RtIdle /\ SniIdle
SpecSubstitute == InitSubstitute /\ [][SubNext]_vars

\* one run of gen-member-reflection on any command line
InitGen ==
  /\ genArgs \in GenCommandLines
  /\ genEnv \in GenEnvironments
  /\ genPc = "start"
  /\ genExit = -1 /\ genOutput = "none" /\ genNumThreads = DefaultNumThreads
  /\ RangeIdle /\ ProfIdle /\ LifeIdle /\ NegIdle /\ PadIdle /\ AccIdle /\ EchIdle /\ SubIdle /\ CmpIdle /\ ProIdle /\ GreaseIdle /\ PubIdle /\ RtIdle /\ SniIdle
SpecGen == InitGen /\ [][GenNext]_vars

\* any two ranges over one element type
InitCompare ==
  /\ cmpKind \in ElementKinds
  /\ cmpA \in CmpRanges(cmpKind)
  /\ cmpB \in CmpRanges(cmpKind)
  /\ cmpResult = NotCompared
  /\ RangeIdle /\ ProfIdle /\ LifeIdle /\ NegIdle /\ PadIdle /\ AccIdle /\ EchIdle /\ SubIdle /\ GenIdle /\ ProIdle /\ GreaseIdle /\ PubIdle /\ RtIdle /\ SniIdle
SpecCompare == InitCompare /\ [][CmpNext]_vars

\* one ProfData object whose translation ids are allocated and whose prologue
\* map is empty
InitPrologue ==
  /\ m_proflogueDB = {}
  /\ proTransRecs = [i \in 1..MaxProTrans |-> NoProfTransRec]
  /\ proCalls = 0
  /\ proAborted = FALSE
  /\ proLast = [op |-> "none"]
  /\ RangeIdle /\ ProfIdle /\ LifeIdle /\ NegIdle /\ PadIdle /\ AccIdle /\ EchIdle /\ SubIdle /\ GenIdle /\ CmpIdle /\ GreaseIdle /\ PubIdle /\ RtIdle /\ SniIdle
SpecPrologue == InitPrologue /\ [][ProNext]_vars

\* one PSK, or none, from which a grease PSK is built
InitGrease ==
  /\ grSource \in SourcePsks \cup {NoPsk}
  /\ grPc = "start"
  /\ grResult = NoPsk
  /\ RangeIdle /\ NegIdle /\ ProfIdle /\ LifeIdle /\ PadIdle /\ AccIdle /\ EchIdle /\ SubIdle /\ GenIdle /\ CmpIdle /\ ProIdle /\ PubIdle /\ RtIdle /\ SniIdle
SpecGrease == InitGrease /\ [][GreaseNext]_vars

\* one ProfData object, threads that translate and one that reads
InitPublish ==
  /\ pubTransRecs = <<>> /\ pubTransLock = NoThread /\ pubFuncProfTrans = <<>>
  /\ pubDvFuncletDB = {} /\ pubProflogueDB = {}
  /\ pubPc = [t \in PubThreads |-> "idle"]
  /\ pubLocal = [t \in PubThreads |-> NoTranslation]
  /\ pubAborted = FALSE /\ pubObs = NoObservation
  /\ RangeIdle /\ NegIdle /\ ProfIdle /\ LifeIdle /\ PadIdle /\ AccIdle /\ EchIdle /\ SubIdle /\ GenIdle /\ CmpIdle /\ ProIdle /\ GreaseIdle /\ RtIdle /\ SniIdle
SpecPublish == InitPublish /\ [][PubNext]_vars

\* any inner list with distinct types, any selection, an outer list made from it
InitRoundTrip ==
  /\ rtInner \in RtInnerLists /\ rtTypes \in RtTypeLists
  /\ rtOuter \in RtOuterLists(rtInner) /\ rtResult = NotExpanded
  /\ RangeIdle /\ NegIdle /\ ProfIdle /\ LifeIdle /\ PadIdle /\ AccIdle /\ EchIdle /\ SubIdle /\ GenIdle /\ CmpIdle /\ ProIdle /\ GreaseIdle /\ PubIdle /\ SniIdle
SpecRoundTrip == InitRoundTrip /\ [][RtNext]_vars

\* any maxLen, any selection, any two host names or none
InitSniPadding ==
  /\ sniMaxLen \in 0..MaxSniLen /\ sniTypes \in SniTypeLists
  /\ sniFiller \in FillerLens
  /\ sniNames \in [1..2 -> {NoName} \cup (0..MaxSniLen)]
  /\ sniResult = NotPadded
  /\ RangeIdle /\ NegIdle /\ ProfIdle /\ LifeIdle /\ PadIdle /\ AccIdle /\ EchIdle /\ SubIdle /\ GenIdle /\ CmpIdle /\ ProIdle /\ GreaseIdle /\ PubIdle /\ RtIdle
SpecSniPadding == InitSniPadding /\ [][SniNext]_vars

(***************************************************************************)
(* Claims about folly::Range                                               *)
(***************************************************************************)
\* the first index k >= from at which src occurs in s, by comparing every
\* position in turn; Npos when there is none
NaiveFind(s, src, from) ==
  LET hits == {k \in from..(Len(s) - Len(src)) :
                 SubSeq(s, k + 1, k + Len(src)) = src}
  IN IF hits = {} THEN Npos
     ELSE CHOOSE k \in hits : \A k2 \in hits : k <= k2

RECURSIVE ScanReplace(_, _, _, _, _)
\* the left-to-right scan that rewrites an occurrence and resumes right after it
ScanReplace(s, src, dst, from, n) ==
  LET k == NaiveFind(s, src, from)
  IN IF k = Npos THEN [ret |-> n, r |-> s]
     ELSE ScanReplace(SubSeq(s, 1, k) \o dst \o SubSeq(s, k + Len(src) + 1, Len(s)),
                      src, dst, k + Len(src), n + 1)

\* C2: for |src| = |dst| > 0, r.replaceAll(src, dst) returns the number of
\* non-overlapping occurrences of src found by a left-to-right scan that
\* resumes right after each rewritten occurrence, and r then holds exactly those
\* occurrences rewritten.
C2_ReplaceAllIsSequentialScan ==
  (last.op = "replaceAll" /\ Len(last.source) = Len(last.dest) /\ Len(last.dest) > 0)
    => LET ref == ScanReplace(last.before, last.source, last.dest, 0, 0)
       IN ~last.threw /\ last.ret = ref.ret /\ r = ref.r


\* C15: replaceAt(pos, x) returns false and leaves every element unchanged
\* if and only if pos + |x| > |r|; otherwise it returns true, overwrites
\* exactly the elements at [pos, pos + |x|) with x, leaves the others alone,
\* and never changes the size of r.
C15_ReplaceAtFitsOrRefuses ==
  last.op = "replaceAt" =>
    LET before == last.before
        x == last.replacement
        fits == last.pos + Len(x) <= Len(before)
    IN /\ ~last.fault /\ ~last.outside
       /\ last.ret = fits
       /\ Len(r) = Len(before)
       /\ ~fits => r = before
       /\ fits => \A i \in 0..(Len(r) - 1) :
                    At(r, i) = IF last.pos <= i /\ i < last.pos + Len(x)
                               THEN At(x, i - last.pos) ELSE At(before, i)


\* C16: r.find(sub) returns the index a naive left-to-right scan finds for
\* the first occurrence of sub: 0 when sub is empty, npos when |sub| > |r| or
\* sub does not occur.  The skip step jumps over no occurrence, and every
\* element qfind reads lies in the haystack (the read is undefined elsewhere).
C16_FindIsNaiveScan ==
  last.op = "find" =>
    /\ last.ret = NaiveFind(r, last.sub, 0)
    /\ Len(last.sub) = 0 => last.ret = 0
    /\ Len(last.sub) > Len(r) => last.ret = Npos
    /\ last.ret # Npos =>
         /\ SubSeq(r, last.ret + 1, last.ret + Len(last.sub)) = last.sub
         /\ \A k \in 0..(last.ret - 1) :
              SubSeq(r, k + 1, k + Len(last.sub)) # last.sub

\* an occurrence found after the alignment at 0 matched the needle's last
\* element, failed, and was skipped
C16_Witness ==
  /\ last.op = "find" /\ Len(last.sub) = 3 /\ last.ret = 2
  /\ At(r, 2) = At(last.sub, 2)


\* what "a,b,,c" splits into at ','
SplitExamplePieces == <<<<"a">>, <<"b">>, <<>>, <<"c">>, <<>>>>

\* C17: each split_step(d) returns the prefix of the view up to, not
\* including, the first occurrence of d and leaves the view starting right
\* after that occurrence; when d does not occur it returns the whole view and
\* leaves the view empty; on an empty view it returns empty and leaves it
\* empty.  Applied repeatedly to "a,b,,c" with d = ',' the results are "a",
\* "b", "", "c", then empty, and the source is empty.
C17_SplitStepPrefixAndRest ==
  last.op = "split_step" =>
    LET before == last.before
        d == last.delimiter
        k == NaiveFind(before, d, 0)
    IN /\ k # Npos => /\ last.ret = SubSeq(before, 1, k)
                      /\ r = SubSeq(before, k + Len(d) + 1, Len(before))
       /\ k = Npos => last.ret = before /\ r = <<>>
       /\ before = <<>> => last.ret = <<>> /\ r = <<>>
       /\ (last.source = SplitExample /\ d = <<",">>) =>
            /\ \A i \in 1..Len(last.pieces) :
                 last.pieces[i] = IF i <= Len(SplitExamplePieces)
                                  THEN SplitExamplePieces[i] ELSE <<>>
            /\ Len(last.pieces) >= 4 => r = <<>>

\* "a,b,,c" split five times at ','
C17_Witness ==
  /\ last.op = "split_step" /\ last.source = SplitExample
  /\ last.overload = "value" /\ last.delimiter = <<",">>
  /\ Len(last.pieces) = 5 /\ r = <<>>


\* p is the first |p| elements of s; p is the last |p| elements of s
IsPrefix(p, s) == Len(p) <= Len(s) /\ \A i \in 1..Len(p) : s[i] = p[i]
IsSuffix(p, s) ==
  Len(p) <= Len(s) /\ \A i \in 1..Len(p) : s[Len(s) - Len(p) + i] = p[i]

\* C20: r.startsWith(p) holds exactly when |p| <= |r| and the first |p|
\* elements of r equal p, r.endsWith(s) exactly when |s| <= |r| and the last
\* |s| elements equal s; removePrefix(p) returns true and drops exactly the
\* first |p| elements when startsWith(p) held, and otherwise returns false
\* and leaves the view unchanged; removeSuffix likewise with endsWith.
C20_AffixTestsAndRemovals ==
  /\ last.op = "startsWith" => last.ret = IsPrefix(last.arg, r)
  /\ last.op = "endsWith" => last.ret = IsSuffix(last.arg, r)
  /\ last.op = "removePrefix" =>
       /\ last.ret = IsPrefix(last.arg, last.before)
       /\ r = IF last.ret
              THEN SubSeq(last.before, Len(last.arg) + 1, Len(last.before))
              ELSE last.before
  /\ last.op = "removeSuffix" =>
       /\ last.ret = IsSuffix(last.arg, last.before)
       /\ r = IF last.ret
              THEN SubSeq(last.before, 1, Len(last.before) - Len(last.arg))
              ELSE last.before

\* a two-element suffix was removed from a longer view
C20_Witness ==
  /\ last.op = "removeSuffix" /\ last.ret /\ Len(last.arg) = 2
  /\ Len(r) > 0 /\ r \o last.arg = last.before


\* the smaller of two sizes
MinSize(a, b) == IF a < b THEN a ELSE b

\* C21: at(i) raises out_of_range iff i >= size(); advance(n) and
\* subtract(n) raise iff n > size(); subpiece(first, len) raises iff
\* first > size(); a raising call leaves the view unchanged, and otherwise
\* the resulting view lies inside the original one: advance and subtract
\* shrink the size by exactly n, subpiece has length min(len, size() - first).
C21_OutOfRangeRaisesAndKeepsView ==
  /\ last.op = "at" =>
       /\ last.threw <=> last.n >= Len(last.before)
       /\ r = last.before
       /\ ~last.threw => last.ret = <<last.before[last.n + 1]>>
  /\ last.op \in {"advance", "subtract"} =>
       /\ last.threw <=> last.n > Len(last.before)
       /\ last.threw => r = last.before
       /\ ~last.threw =>
            /\ 0 <= last.b /\ last.b <= last.e /\ last.e <= Len(last.before)
            /\ Len(r) = Len(last.before) - last.n
            /\ r = IF last.op = "advance"
                   THEN SubSeq(last.before, last.n + 1, Len(last.before))
                   ELSE SubSeq(last.before, 1, Len(last.before) - last.n)
  /\ last.op = "subpiece" =>
       /\ last.threw <=> last.n > Len(last.before)
       /\ r = last.before
       /\ ~last.threw =>
            /\ 0 <= last.b /\ last.b <= last.e /\ last.e <= Len(last.before)
            /\ Len(last.ret) = MinSize(last.length, Len(last.before) - last.n)
            /\ last.ret = SubSeq(last.before, last.n + 1, last.n + Len(last.ret))

\* subpiece(1) with the default length on a view of three or more elements
C21_Witness ==
  /\ last.op = "subpiece" /\ ~last.threw
  /\ last.n = 1 /\ last.length = SizeMod - 1
  /\ Len(last.ret) = Len(r) - 1 /\ Len(last.ret) >= 2

\* C27: for every non-empty view and every delimiter, the empty delimiter
\* range included, a call to split_step of either overload strictly
\* decreases the size of the view.
C27_SplitStepShrinksView ==
  (last.op = "split_step" /\ last.before # <<>>) => Len(r) < Len(last.before)

=============================================================================
